---------------------------- MODULE Spec2Model ----------------------------
(***************************************************************************)
(* A model of BioKG-Builder (src/biokg_builder): the per-abstract batch    *)
(* stage (analyzer.py), pair extraction and entity canonicalisation        *)
(* (processor.py), graph construction and keyword search (visualizer.py)   *)
(* and the pipeline orchestration (core.py, searcher.py).                  *)
(*                                                                         *)
(* Python strings are modelled as sequences of one-character strings, so   *)
(* that substring tests, trimming, case folding and replacement are        *)
(* computed rather than assumed.  The empty string is << >>.               *)
(***************************************************************************)
EXTENDS Integers, Sequences, FiniteSets, TLC

VARIABLES
    \* ---- analyzer.py: CausalAnalyzer.batch_analyze -----------------------
    abstracts,        \* df['Abstract'], one value per row index
    hasAbstractCol,   \* whether df has an 'Abstract' column at all
    hasAnswerCol,     \* whether df has 'Answer to Question 2' on entry
    answer,           \* df['Answer to Question 2'], one cell per row index
    start_row,        \* batch_analyze's start_row argument
    use_parallel,     \* config.use_parallel, as batch_analyze reads it
    max_workers,      \* config.max_workers
    mpc,              \* position of the thread that called batch_analyze
    seqNext,          \* sequential mode: position in rows_to_process
    submitted,        \* parallel mode: row indices already submitted
    tpc,              \* per row: position of its analyze_single_row task
    tresult,          \* per row: the task's local `result`
    tmp,              \* per row: the value read by `completed_count += 1`
    lock,             \* self.lock: its holder (a row index) or NoHolder
    completed_count,  \* self.completed_count
    writes,           \* history: number of df.at writes per row index
    llmCalls,         \* history: number of chat-completion requests per row
    llmFailed,        \* history: per row, whether its request raised
    \* ---- processor.py / visualizer.py: re.findall(self.pattern, value) ---
    text,             \* the cell value handed to re.findall
    pairs,            \* the (entity_a, entity_b) pairs, stripped, in order
    xpc,              \* "ready" before the extraction, "done" after it
    \* ---- visualizer.py: create_filtered_network, _search_network --------
    cells,            \* df['Answer to Question 2'] as the visualizer reads it
    exclude_entities, \* the caller's exclusion list (as a set of strings)
    search_keyword,   \* the keyword handed to _search_network
    depth,            \* the depth handed to _search_network
    G,                \* the networkx graph: [nodes: sequence, edges: set]
    filtered_graph,   \* what _search_network returned
    ret,              \* create_filtered_network's (filename, node_names)
    network_stats,    \* what analyze_network_structure returned
    gpc,              \* position: "ready", "done"
    \* ---- processor.py: EntityProcessor.process_entities -----------------
    df_cells,         \* df['Answer to Question 2'] handed to process_entities
    use_embeddings,   \* whether _get_model() returns a sentence model
    emb_similar,      \* pairs whose embedding cosine exceeds the threshold
    entities,         \* extract_entities(df)
    similar_phrases,  \* the returned dict, as its (key, value) items in order
    processed_cells,  \* the column of processed_df
    final_entities,   \* extract_entities(processed_df)
    statistics,       \* results['statistics'] of core.py:98-99, or None
    epc,              \* position: "ready", "done"
    \* ---- core.py: BioKGBuilder.build_knowledge_graph (and searcher.py) ---
    max_results,         \* the caller's max_results argument (optional)
    arg_use_parallel,    \* the caller's use_parallel argument (optional)
    config_use_parallel, \* self.config.use_parallel
    original_parallel,   \* the local original_parallel, once bound
    first_parallel,      \* history: config.use_parallel before the first call
    batch_parallel,      \* the mode batch_analyze read in this call, if any
    builds,              \* history: number of build_knowledge_graph calls
    config_max_results,  \* self.config.max_results
    available,           \* number of records the citation database matches
    retmax,              \* retmax of the esearch request, once sent
    output_dir,          \* the local output_dir of search_and_save
    id_count,            \* len(id_list)
    df_len,              \* len(df) after the search stage
    results_files,       \* results['files'], as its (key, value) items
    results_statistics,  \* the keys of results['statistics']
    results_keys,        \* the top-level keys of results
    results_error,       \* results['error'], once set
    calls,               \* history: the component calls made, in order
    raised,              \* the exception raised inside the try block
    bpc,                 \* position: the next call, "except", "finally", ...
    \* ---- cli.py: handle_build_command, handle_search_command ------------
    command,             \* args.command: "build" or "search"
    config_exists,       \* args.config is given and the file exists
    args_email,          \* --email (optional)
    args_api_key,        \* --api-key (optional)
    env_email,           \* BIOKG_EMAIL in the environment (optional)
    env_api_key,         \* BIOKG_API_KEY in the environment (optional)
    file_email,          \* "email" in the configuration file (optional)
    file_api_key,        \* "api_key" in the configuration file (optional)
    args_max_results,    \* --max-results
    dir_exists,          \* whether args.output_dir exists on disk
    cfg_email,           \* config.email of the builder / searcher, once built
    cfg_api_key,         \* config.api_key of the builder, once built
    messages,            \* what the command printed, in order
    exit_status,         \* the process exit status, once it has ended
    net_requests,        \* history: requests the search command has sent
    cpc,                 \* position of the command handler
    \* ---- processor.py: EntityProcessor._is_similar ----------------------
    str_a,               \* the first string
    str_b,               \* the second string
    threshold,           \* config.similarity_threshold, as <<num, den>>
    similar_ab,          \* _is_similar(str_a, str_b)
    similar_ba,          \* _is_similar(str_b, str_a)
    spc                  \* "ready" before the two calls, "done" after them

batchVars == <<abstracts, hasAbstractCol, hasAnswerCol, answer, start_row,
               use_parallel, max_workers, mpc, seqNext, submitted, tpc,
               tresult, tmp, lock, completed_count, writes, llmCalls,
               llmFailed>>

extractVars == <<text, pairs, xpc>>

graphVars == <<cells, exclude_entities, search_keyword, depth, G,
                filtered_graph, ret, network_stats, gpc>>

entityVars == <<df_cells, use_embeddings, emb_similar, entities,
                 similar_phrases, processed_cells, final_entities,
                 statistics, epc>>

buildVars == <<max_results, arg_use_parallel, config_use_parallel,
               original_parallel, first_parallel, batch_parallel, builds,
               config_max_results, available, retmax,
               output_dir, id_count, df_len, results_files,
               results_statistics, results_keys, results_error, calls, raised,
               bpc>>

cliVars == <<command, config_exists, args_email, args_api_key, env_email,
             env_api_key, file_email, file_api_key, args_max_results,
             dir_exists, cfg_email, cfg_api_key, messages, exit_status,
             net_requests, cpc>>

similarVars == <<str_a, str_b, threshold, similar_ab, similar_ba, spc>>

vars == <<batchVars, extractVars, graphVars, entityVars, buildVars, cliVars,
          similarVars>>

nonBatchVars == <<extractVars, graphVars, entityVars, buildVars, cliVars,
                  similarVars>>
nonExtractVars == <<batchVars, graphVars, entityVars, buildVars, cliVars,
                    similarVars>>
nonGraphVars == <<batchVars, extractVars, entityVars, buildVars, cliVars,
                  similarVars>>
nonEntityVars == <<batchVars, extractVars, graphVars, buildVars, cliVars,
                   similarVars>>
nonBuildVars == <<batchVars, extractVars, graphVars, entityVars, cliVars,
                  similarVars>>
nonCliBuildVars == <<batchVars, extractVars, graphVars, entityVars,
                     similarVars>>
nonSimilarVars == <<batchVars, extractVars, graphVars, entityVars, buildVars,
                    cliVars>>

(***************************************************************************)
(* Bounds of the model.                                                    *)
(***************************************************************************)
MaxRows == 3
MaxWorkers == 2
MaxTextLen == 6
MaxDepth == 2
MaxCells == 2
MaxResults == 2
MaxNameLen == 3
MaxCalls == 2

(***************************************************************************)
(* Values.                                                                 *)
(***************************************************************************)
EmptyStr == << >>
NaN == <<"NaN">>                       \* a missing abstract (None / NaN)
OldCell == <<"old">>                   \* a cell value present before the call
AbstractText(i) == <<"abstract", i>>   \* the abstract text of article i
Reply(a) == <<"reply", a>>             \* the model's stripped reply to text a
NoHolder == -1

Rows == 0 .. (MaxRows - 1)

\* analyzer.py:23 and :46  `not abstract or pd.isna(abstract)`
IsMissing(a) == a = NaN \/ a = EmptyStr

\* analyzer.py:65  rows_to_process = [(i, row) ... if i >= start_row]
RowsToProcess == {i \in Rows : i >= start_row}

SetMin(S) == CHOOSE x \in S : \A y \in S : x <= y


(***************************************************************************)
(* Each specification below runs one component; the variables of the       *)
(* other components then keep these values.                                *)
(***************************************************************************)
BatchIdle ==
    /\ abstracts = << >> /\ hasAbstractCol = FALSE /\ hasAnswerCol = FALSE
    /\ answer = << >> /\ start_row = 0 /\ use_parallel = FALSE
    /\ max_workers = 0 /\ mpc = "off" /\ seqNext = 0 /\ submitted = {}
    /\ tpc = << >> /\ tresult = << >> /\ tmp = << >> /\ lock = NoHolder
    /\ completed_count = 0 /\ writes = << >> /\ llmCalls = << >>
    /\ llmFailed = << >>

ExtractIdle == text = << >> /\ pairs = << >> /\ xpc = "off"

EmptyGraph == [nodes |-> << >>, edges |-> {}]
NoReturn == [filename |-> "none", node_names |-> << >>]
NoStats == [kind |-> "none"]

GraphIdle ==
    /\ cells = << >> /\ exclude_entities = {} /\ search_keyword = << >>
    /\ depth = 0 /\ G = EmptyGraph /\ filtered_graph = EmptyGraph
    /\ ret = NoReturn /\ network_stats = NoStats /\ gpc = "off"

EntityIdle ==
    /\ df_cells = << >> /\ use_embeddings = FALSE /\ emb_similar = {}
    /\ entities = << >> /\ similar_phrases = << >> /\ processed_cells = << >>
    /\ final_entities = << >> /\ statistics = << >> /\ epc = "off"

\* An optional value: None, or Some(x).
None == << >>
Some(x) == <<x>>

BuildIdle ==
    /\ max_results = None /\ arg_use_parallel = None
    /\ config_use_parallel = FALSE /\ original_parallel = None
    /\ first_parallel = FALSE /\ batch_parallel = None /\ builds = 0
    /\ config_max_results = 0 /\ available = 0 /\ retmax = None
    /\ output_dir = None /\ id_count = 0 /\ df_len = 0
    /\ results_files = << >> /\ results_statistics = {} /\ results_keys = {}
    /\ results_error = None /\ calls = << >> /\ raised = None /\ bpc = "off"

CliIdle ==
    /\ command = "none" /\ config_exists = FALSE
    /\ args_email = None /\ args_api_key = None /\ env_email = None
    /\ env_api_key = None /\ file_email = None /\ file_api_key = None
    /\ args_max_results = 0 /\ dir_exists = FALSE /\ cfg_email = None
    /\ cfg_api_key = None /\ messages = << >> /\ exit_status = None
    /\ net_requests = << >> /\ cpc = "off"

SimilarIdle ==
    /\ str_a = << >> /\ str_b = << >> /\ threshold = <<0, 1>>
    /\ similar_ab = FALSE /\ similar_ba = FALSE /\ spc = "off"

(***************************************************************************)
(* Python strings: sequences of one-character strings.                     *)
(***************************************************************************)
\* Characters str.strip() removes and \s matches.
Whitespace == {" ", "\t", "\n", "\r"}

\* str.strip()
RECURSIVE LStrip(_)
LStrip(s) == IF s # << >> /\ Head(s) \in Whitespace THEN LStrip(Tail(s)) ELSE s

RECURSIVE RStrip(_)
RStrip(s) ==
    IF s # << >> /\ s[Len(s)] \in Whitespace
      THEN RStrip(SubSeq(s, 1, Len(s) - 1))
      ELSE s

Strip(s) == RStrip(LStrip(s))

\* Length of the longest run of characters of s, from position `from` on,
\* that are all in set Ok (Ok given as a predicate on a character).
RECURSIVE RunLen(_, _, _)
RunLen(s, from, Stop) ==
    IF from > Len(s) \/ s[from] \in Stop THEN 0 ELSE 1 + RunLen(s, from + 1, Stop)

RECURSIVE WsRunLen(_, _)
WsRunLen(s, from) ==
    IF from > Len(s) \/ s[from] \notin Whitespace THEN 0 ELSE 1 + WsRunLen(s, from + 1)

SetMax(S) == CHOOSE x \in S : \A y \in S : x >= y

\* str.lower() on the letters the model uses.
LowerChar(c) ==
    CASE c = "A" -> "a" [] c = "B" -> "b" [] c = "C" -> "c" [] c = "P" -> "p"
      [] OTHER -> c

Lower(s) == [i \in 1 .. Len(s) |-> LowerChar(s[i])]

\* `a in b` for strings: a occurs in b as a contiguous substring.
IsSubstr(a, b) ==
    \E off \in 0 .. (Len(b) - Len(a)) : SubSeq(b, off + 1, off + Len(a)) = a

\* ord() of the characters the model uses, for sorted().
Ord(c) ==
    CASE c = "\t" -> 9 [] c = "\n" -> 10 [] c = "\r" -> 13 [] c = " " -> 32
      [] c = "(" -> 40 [] c = ")" -> 41 [] c = "," -> 44
      [] c = "A" -> 65 [] c = "B" -> 66 [] c = "C" -> 67 [] c = "P" -> 80
      [] c = "a" -> 97 [] c = "b" -> 98 [] c = "c" -> 99 [] c = "p" -> 112
      [] c = "x" -> 120 [] OTHER -> 122

\* a < b for Python strings: by code point, a proper prefix first.
RECURSIVE StrLess(_, _)
StrLess(a, b) ==
    IF b = << >> THEN FALSE
    ELSE IF a = << >> THEN TRUE
    ELSE IF Head(a) # Head(b) THEN Ord(Head(a)) < Ord(Head(b))
    ELSE StrLess(Tail(a), Tail(b))

\* sorted(S) for a set of strings.
RECURSIVE Sorted(_)
Sorted(S) ==
    IF S = {} THEN << >>
    ELSE LET least == CHOOSE x \in S : \A y \in S \ {x} : StrLess(x, y)
         IN <<least>> \o Sorted(S \ {least})

Range(f) == {f[i] : i \in DOMAIN f}

\* The text "(a, b)" a language model is asked to write for a pair.
PairText(a, b) == <<"(">> \o a \o <<",", " ">> \o b \o <<")">>

(***************************************************************************)
(* The pattern r'\(([^,]+),\s*([^\)]+)\)' (processor.py:16,                *)
(* visualizer.py:17) under re.findall: a backtracking match, every         *)
(* quantifier greedy.                                                      *)
(***************************************************************************)
\* `([^\)]+)\)` matched from position y: the lengths n2 >= 1 of a run of
\* characters other than ")" that is followed by ")".
Group2Lens(s, y) ==
    {n2 \in 1 .. RunLen(s, y, {")"}) : y + n2 <= Len(s) /\ s[y + n2] = ")"}

\* `\s*([^\)]+)\)` matched from position w: the numbers k >= 0 of whitespace
\* characters after which the rest of the pattern matches.
WsLens(s, w) == {k \in 0 .. WsRunLen(s, w) : Group2Lens(s, w + k) # {}}

\* `([^,]+),\s*([^\)]+)\)` matched from position x: the lengths n1 >= 1 of a
\* run of characters other than "," that is followed by "," and by a match
\* of the rest.
Group1Lens(s, x) ==
    {n1 \in 1 .. RunLen(s, x, {","}) :
        /\ x + n1 <= Len(s) /\ s[x + n1] = ","
        /\ WsLens(s, x + n1 + 1) # {}}

\* The match of the whole pattern that starts at position p, if any: greedy
\* quantifiers give up characters only when the rest fails, so each takes
\* the greatest length for which the rest still matches.
NoMatch == [ok |-> FALSE, g1 |-> << >>, g2 |-> << >>, last |-> 0]

\* Mutant of PatternMatchAt: `\s*` keeps all the whitespace it took and never
\* gives a character back to the second group.
PatternMatchAtPossessive(s, p) ==
    IF p > Len(s) \/ s[p] # "(" \/ Group1Lens(s, p + 1) = {}
      THEN NoMatch
      ELSE LET n1 == SetMax(Group1Lens(s, p + 1))
               w  == p + 1 + n1 + 1
               k  == WsRunLen(s, w)
           IN IF Group2Lens(s, w + k) = {} THEN NoMatch
              ELSE LET n2 == SetMax(Group2Lens(s, w + k)) IN
                   [ok |-> TRUE,
                    g1 |-> SubSeq(s, p + 1, p + n1),
                    g2 |-> SubSeq(s, w + k, w + k + n2 - 1),
                    last |-> w + k + n2]

PatternMatchAt(s, p) ==
    IF p > Len(s) \/ s[p] # "(" \/ Group1Lens(s, p + 1) = {}
      THEN NoMatch
      ELSE LET n1 == SetMax(Group1Lens(s, p + 1))
               w  == p + 1 + n1 + 1
               k  == SetMax(WsLens(s, w))
               n2 == SetMax(Group2Lens(s, w + k))
           IN [ok |-> TRUE,
               g1 |-> SubSeq(s, p + 1, p + n1),
               g2 |-> SubSeq(s, w + k, w + k + n2 - 1),
               last |-> w + k + n2]

\* re.findall: scan from the left; after a match the scan resumes behind it.
RECURSIVE FindAllFrom(_, _)
FindAllFrom(s, p) ==
    IF p > Len(s) THEN << >>
    ELSE LET m == PatternMatchAt(s, p) IN
           IF m.ok THEN <<(<<m.g1, m.g2>>)>> \o FindAllFrom(s, m.last + 1)
                   ELSE FindAllFrom(s, p + 1)

FindAll(s) == FindAllFrom(s, 1)

\* processor.py:35-36, visualizer.py:35-36: each group of each match,
\* stripped.
ExtractPairs(s) ==
    LET matches == FindAll(s) IN
      [i \in 1 .. Len(matches) |-> <<Strip(matches[i][1]), Strip(matches[i][2])>>]

(***************************************************************************)
(* Pair extraction on its own: any text over a small alphabet.             *)
(***************************************************************************)
TextAlphabet == {"(", ",", ")", " ", "a"}

\* The text of the specification's example,
\* "(Gene1, Protein2) and (Protein2, Pathway3)".
Gene1 == <<"G", "e", "n", "e", "1">>
Protein2 == <<"P", "r", "o", "t", "e", "i", "n", "2">>
Pathway3 == <<"P", "a", "t", "h", "w", "a", "y", "3">>
ExampleText ==
    <<"(">> \o Gene1 \o <<",", " ">> \o Protein2 \o <<")">>
      \o <<" ", "a", "n", "d", " ">>
      \o <<"(">> \o Protein2 \o <<",", " ">> \o Pathway3 \o <<")">>

Texts == UNION {[1 .. n -> TextAlphabet] : n \in 0 .. MaxTextLen} \cup {ExampleText}

ExtractInit ==
    /\ BatchIdle /\ GraphIdle /\ EntityIdle /\ BuildIdle /\ CliIdle /\ SimilarIdle
    /\ text \in Texts
    /\ pairs = << >>
    /\ xpc = "ready"

\* processor.py:34-36  one cell value through re.findall and strip.
Extract ==
    /\ xpc = "ready"
    /\ pairs' = ExtractPairs(text)
    /\ xpc' = "done"
    /\ UNCHANGED text
    /\ UNCHANGED nonExtractVars

ExtractNext == Extract

SpecExtract == ExtractInit /\ [][ExtractNext]_vars

(***************************************************************************)
(* analyzer.py: batch_analyze and its two modes.                           *)
(***************************************************************************)
\* A dataset as the search stage hands it over, and CausalAnalyzer.__init__
\* (analyzer.py:15-19): lock free, completed_count = 0.
BatchInit ==
    /\ ExtractIdle /\ GraphIdle /\ EntityIdle /\ BuildIdle /\ CliIdle /\ SimilarIdle
    /\ abstracts \in [Rows -> {NaN, EmptyStr, <<"text">>}]
    /\ hasAbstractCol \in BOOLEAN
    /\ hasAnswerCol \in BOOLEAN
    /\ answer = [i \in Rows |-> IF hasAnswerCol THEN OldCell ELSE NaN]
    /\ start_row \in 0 .. MaxRows
    /\ use_parallel \in BOOLEAN
    /\ max_workers \in 1 .. MaxWorkers
    /\ mpc = "call"
    /\ seqNext = 0
    /\ submitted = {}
    /\ tpc = [i \in Rows |-> "none"]
    /\ tresult = [i \in Rows |-> EmptyStr]
    /\ tmp = [i \in Rows |-> 0]
    /\ lock = NoHolder
    /\ completed_count = 0
    /\ writes = [i \in Rows |-> 0]
    /\ llmCalls = [i \in Rows |-> 0]
    /\ llmFailed = [i \in Rows |-> FALSE]

\* The abstract text of row i: each article has its own text.
AbstractOf(i) == IF abstracts[i] = <<"text">> THEN AbstractText(i) ELSE abstracts[i]

\* analyzer.py:60-75  batch_analyze up to the choice of mode; in parallel
\* mode also line 79 (completed_count = 0).
BatchAnalyze ==
    /\ mpc = "call"
    /\ answer' = IF hasAnswerCol THEN answer ELSE [i \in Rows |-> EmptyStr]
    /\ hasAnswerCol' = TRUE
    /\ IF RowsToProcess = {}
         THEN mpc' = "returned" /\ UNCHANGED completed_count
         ELSE IF use_parallel
                THEN mpc' = "submitting" /\ completed_count' = 0
                ELSE mpc' = "sequential" /\ UNCHANGED completed_count
    /\ seqNext' = start_row
    /\ UNCHANGED nonBatchVars
    /\ UNCHANGED <<abstracts, hasAbstractCol, start_row, use_parallel,
                   max_workers, submitted, tpc, tresult, tmp, lock, writes,
                   llmCalls, llmFailed>>

\* analyzer.py:21-40  analyze_abstract: the value it returns for an abstract
\* a when the request ends with `outcome` ("text" or "error").
AnalyzeAbstractValue(a, outcome) ==
    IF IsMissing(a) THEN EmptyStr
    ELSE IF outcome = "text" THEN Reply(a) ELSE EmptyStr

\* Mutant of SeqStep: the failure of the request is not caught and leaves
\* batch_analyze as an exception.
SeqStepPropagates(outcome) ==
    /\ mpc = "sequential"
    /\ seqNext \in Rows
    /\ IF ~hasAbstractCol \/ (~IsMissing(AbstractOf(seqNext)) /\ outcome = "error")
         THEN /\ mpc' = "raised"
              /\ llmCalls' = [llmCalls EXCEPT ![seqNext] = IF hasAbstractCol THEN @ + 1 ELSE @]
              /\ llmFailed' = [llmFailed EXCEPT ![seqNext] = hasAbstractCol]
              /\ UNCHANGED <<answer, writes, seqNext>>
         ELSE /\ answer' = [answer EXCEPT ![seqNext] =
                               AnalyzeAbstractValue(AbstractOf(seqNext), outcome)]
              /\ writes' = [writes EXCEPT ![seqNext] = @ + 1]
              /\ llmCalls' = [llmCalls EXCEPT ![seqNext] =
                                 IF IsMissing(AbstractOf(seqNext)) THEN @ ELSE @ + 1]
              /\ llmFailed' = [llmFailed EXCEPT ![seqNext] = FALSE]
              /\ seqNext' = seqNext + 1
              /\ mpc' = IF seqNext + 1 \in Rows THEN "sequential" ELSE "returned"
    /\ UNCHANGED nonBatchVars
    /\ UNCHANGED <<abstracts, hasAbstractCol, hasAnswerCol, start_row,
                   use_parallel, max_workers, submitted, tpc, tresult, tmp,
                   lock, completed_count>>

\* analyzer.py:100-112  one iteration of the sequential loop.  row['Abstract']
\* raises KeyError when the column is missing; analyze_abstract catches the
\* failure of its own request.
SeqStep(outcome) ==
    /\ mpc = "sequential"
    /\ seqNext \in Rows
    /\ IF ~hasAbstractCol
         THEN /\ mpc' = "raised"
              /\ UNCHANGED <<answer, writes, llmCalls, llmFailed, seqNext>>
         ELSE /\ answer' = [answer EXCEPT ![seqNext] =
                               AnalyzeAbstractValue(AbstractOf(seqNext), outcome)]
              /\ writes' = [writes EXCEPT ![seqNext] = @ + 1]
              /\ llmCalls' = [llmCalls EXCEPT ![seqNext] =
                                 IF IsMissing(AbstractOf(seqNext)) THEN @ ELSE @ + 1]
              /\ llmFailed' = [llmFailed EXCEPT ![seqNext] =
                                 ~IsMissing(AbstractOf(seqNext)) /\ outcome = "error"]
              /\ seqNext' = seqNext + 1
              /\ mpc' = IF seqNext + 1 \in Rows THEN "sequential" ELSE "returned"
    /\ UNCHANGED nonBatchVars
    /\ UNCHANGED <<abstracts, hasAbstractCol, hasAnswerCol, start_row,
                   use_parallel, max_workers, submitted, tpc, tresult, tmp,
                   lock, completed_count>>

\* analyzer.py:84-87  executor.submit for the next row of rows_to_process.
Submit ==
    /\ mpc = "submitting"
    /\ LET i == SetMin(RowsToProcess \ submitted) IN
         /\ submitted' = submitted \cup {i}
         /\ tpc' = [tpc EXCEPT ![i] = "queued"]
         /\ mpc' = IF submitted' = RowsToProcess THEN "collecting" ELSE "submitting"
    /\ UNCHANGED nonBatchVars
    /\ UNCHANGED <<abstracts, hasAbstractCol, hasAnswerCol, answer, start_row,
                   use_parallel, max_workers, seqNext, tresult, tmp, lock,
                   completed_count, writes, llmCalls, llmFailed>>

\* Tasks a pool thread is executing.
Running == {i \in Rows : tpc[i] \in {"calling", "lockwait", "locked", "read", "written"}}

\* analyzer.py:44-49  a pool thread (at most max_workers of them) takes the
\* oldest queued work item and runs analyze_single_row up to the request.
\* Without an 'Abstract' column row['Abstract'] raises and the future fails.
TaskStart(i) ==
    /\ tpc[i] = "queued"
    /\ i = SetMin({j \in Rows : tpc[j] = "queued"})
    /\ Cardinality(Running) < max_workers
    /\ IF ~hasAbstractCol
         THEN tpc' = [tpc EXCEPT ![i] = "failed"] /\ UNCHANGED <<tresult, llmCalls>>
         ELSE IF IsMissing(AbstractOf(i))
                THEN /\ tpc' = [tpc EXCEPT ![i] = "lockwait"]
                     /\ tresult' = [tresult EXCEPT ![i] = EmptyStr]
                     /\ UNCHANGED llmCalls
                ELSE /\ tpc' = [tpc EXCEPT ![i] = "calling"]
                     /\ llmCalls' = [llmCalls EXCEPT ![i] = @ + 1]
                     /\ UNCHANGED tresult
    /\ UNCHANGED nonBatchVars
    /\ UNCHANGED <<abstracts, hasAbstractCol, hasAnswerCol, answer, start_row,
                   use_parallel, max_workers, mpc, seqNext, submitted, tmp,
                   lock, completed_count, writes, llmFailed>>

\* Mutant of LLMDone: a failed request is issued once more.
LLMDoneRetrying(i, outcome) ==
    /\ tpc[i] = "calling"
    /\ IF outcome = "error" /\ llmCalls[i] < 2
         THEN /\ llmCalls' = [llmCalls EXCEPT ![i] = @ + 1]
              /\ UNCHANGED <<tresult, llmFailed, tpc>>
         ELSE /\ tresult' = [tresult EXCEPT ![i] =
                                AnalyzeAbstractValue(AbstractOf(i), outcome)]
              /\ llmFailed' = [llmFailed EXCEPT ![i] = (outcome = "error")]
              /\ tpc' = [tpc EXCEPT ![i] = "lockwait"]
              /\ UNCHANGED llmCalls
    /\ UNCHANGED nonBatchVars
    /\ UNCHANGED <<abstracts, hasAbstractCol, hasAnswerCol, answer, start_row,
                   use_parallel, max_workers, mpc, seqNext, submitted, tmp,
                   lock, completed_count, writes>>

\* analyzer.py:31-40  the request of row i ends: with a reply, or with an
\* exception that analyze_abstract catches.
LLMDone(i, outcome) ==
    /\ tpc[i] = "calling"
    /\ tresult' = [tresult EXCEPT ![i] = AnalyzeAbstractValue(AbstractOf(i), outcome)]
    /\ llmFailed' = [llmFailed EXCEPT ![i] = (outcome = "error")]
    /\ tpc' = [tpc EXCEPT ![i] = "lockwait"]
    /\ UNCHANGED nonBatchVars
    /\ UNCHANGED <<abstracts, hasAbstractCol, hasAnswerCol, answer, start_row,
                   use_parallel, max_workers, mpc, seqNext, submitted, tmp,
                   lock, completed_count, writes, llmCalls>>

\* Mutant of Acquire: the task enters the block without waiting for the
\* lock.
AcquireWithoutWaiting(i) ==
    /\ tpc[i] = "lockwait"
    /\ lock' = i
    /\ tpc' = [tpc EXCEPT ![i] = "locked"]
    /\ UNCHANGED nonBatchVars
    /\ UNCHANGED <<abstracts, hasAbstractCol, hasAnswerCol, answer, start_row,
                   use_parallel, max_workers, mpc, seqNext, submitted, tresult,
                   tmp, completed_count, writes, llmCalls, llmFailed>>

\* analyzer.py:52  with self.lock: acquire.
Acquire(i) ==
    /\ tpc[i] = "lockwait"
    /\ lock = NoHolder
    /\ lock' = i
    /\ tpc' = [tpc EXCEPT ![i] = "locked"]
    /\ UNCHANGED nonBatchVars
    /\ UNCHANGED <<abstracts, hasAbstractCol, hasAnswerCol, answer, start_row,
                   use_parallel, max_workers, mpc, seqNext, submitted, tresult,
                   tmp, completed_count, writes, llmCalls, llmFailed>>

\* analyzer.py:53  self.completed_count += 1, the read.
ReadCount(i) ==
    /\ tpc[i] = "locked"
    /\ tmp' = [tmp EXCEPT ![i] = completed_count]
    /\ tpc' = [tpc EXCEPT ![i] = "read"]
    /\ UNCHANGED nonBatchVars
    /\ UNCHANGED <<abstracts, hasAbstractCol, hasAnswerCol, answer, start_row,
                   use_parallel, max_workers, mpc, seqNext, submitted, tresult,
                   lock, completed_count, writes, llmCalls, llmFailed>>

\* analyzer.py:53  self.completed_count += 1, the write.
WriteCount(i) ==
    /\ tpc[i] = "read"
    /\ completed_count' = tmp[i] + 1
    /\ tpc' = [tpc EXCEPT ![i] = "written"]
    /\ UNCHANGED nonBatchVars
    /\ UNCHANGED <<abstracts, hasAbstractCol, hasAnswerCol, answer, start_row,
                   use_parallel, max_workers, mpc, seqNext, submitted, tresult,
                   tmp, lock, writes, llmCalls, llmFailed>>

\* Mutant of Release: the pool thread stores its result in the table itself
\* before it returns.
ReleaseWritingTable(i) ==
    /\ tpc[i] = "written"
    /\ lock' = NoHolder
    /\ tpc' = [tpc EXCEPT ![i] = "done"]
    /\ answer' = [answer EXCEPT ![i] = tresult[i]]
    /\ writes' = [writes EXCEPT ![i] = @ + 1]
    /\ UNCHANGED nonBatchVars
    /\ UNCHANGED <<abstracts, hasAbstractCol, hasAnswerCol, start_row,
                   use_parallel, max_workers, mpc, seqNext, submitted, tresult,
                   tmp, completed_count, llmCalls, llmFailed>>

\* Mutant of Release: the task returns without releasing the lock.
ReleaseKeepingLock(i) ==
    /\ tpc[i] = "written"
    /\ tpc' = [tpc EXCEPT ![i] = "done"]
    /\ UNCHANGED nonBatchVars
    /\ UNCHANGED <<abstracts, hasAbstractCol, hasAnswerCol, answer, start_row,
                   use_parallel, max_workers, mpc, seqNext, submitted, tresult,
                   tmp, lock, completed_count, writes, llmCalls, llmFailed>>

\* analyzer.py:54-58  leave the with block (release) and return
\* (index, result): the future is done.
Release(i) ==
    /\ tpc[i] = "written"
    /\ lock' = NoHolder
    /\ tpc' = [tpc EXCEPT ![i] = "done"]
    /\ UNCHANGED nonBatchVars
    /\ UNCHANGED <<abstracts, hasAbstractCol, hasAnswerCol, answer, start_row,
                   use_parallel, max_workers, mpc, seqNext, submitted, tresult,
                   tmp, completed_count, writes, llmCalls, llmFailed>>

\* analyzer.py:89-96  one iteration of `for future in as_completed(futures)`:
\* any future that is done and not yet yielded.  future.result() gives the
\* task's (index, result), or raises and the except branch writes "".
\* Mutant of Collect: the row index is taken from the completion counter
\* instead of from the future's own (index, result).
CollectByCounter(i) ==
    /\ mpc = "collecting"
    /\ tpc[i] \in {"done", "failed"}
    /\ LET k == IF tpc[i] = "done" THEN start_row + completed_count - 1 ELSE i IN
         /\ answer' = [answer EXCEPT ![k] =
                          IF tpc[i] = "done" THEN tresult[i] ELSE EmptyStr]
         /\ writes' = [writes EXCEPT ![k] = @ + 1]
    /\ tpc' = [tpc EXCEPT ![i] = "collected"]
    /\ UNCHANGED nonBatchVars
    /\ UNCHANGED <<abstracts, hasAbstractCol, hasAnswerCol, start_row,
                   use_parallel, max_workers, mpc, seqNext, submitted, tresult,
                   tmp, lock, completed_count, llmCalls, llmFailed>>

Collect(i) ==
    /\ mpc = "collecting"
    /\ tpc[i] \in {"done", "failed"}
    /\ answer' = [answer EXCEPT ![i] =
                     IF tpc[i] = "done" THEN tresult[i] ELSE EmptyStr]
    /\ writes' = [writes EXCEPT ![i] = @ + 1]
    /\ tpc' = [tpc EXCEPT ![i] = "collected"]
    /\ UNCHANGED nonBatchVars
    /\ UNCHANGED <<abstracts, hasAbstractCol, hasAnswerCol, start_row,
                   use_parallel, max_workers, mpc, seqNext, submitted, tresult,
                   tmp, lock, completed_count, llmCalls, llmFailed>>

\* analyzer.py:83,98  as_completed is exhausted, the executor shuts down
\* (every future is done), and the method returns df.
ParallelReturn ==
    /\ mpc = "collecting"
    /\ \A i \in RowsToProcess : tpc[i] = "collected"
    /\ mpc' = "returned"
    /\ UNCHANGED nonBatchVars
    /\ UNCHANGED <<abstracts, hasAbstractCol, hasAnswerCol, answer, start_row,
                   use_parallel, max_workers, seqNext, submitted, tpc, tresult,
                   tmp, lock, completed_count, writes, llmCalls, llmFailed>>

Outcomes == {"text", "error"}

BatchNext ==
    \/ BatchAnalyze
    \/ \E o \in Outcomes : SeqStep(o)
    \/ Submit
    \/ \E i \in Rows : TaskStart(i)
    \/ \E i \in Rows : \E o \in Outcomes : LLMDone(i, o)
    \/ \E i \in Rows : Acquire(i)
    \/ \E i \in Rows : ReadCount(i)
    \/ \E i \in Rows : WriteCount(i)
    \/ \E i \in Rows : Release(i)
    \/ \E i \in Rows : Collect(i)
    \/ ParallelReturn

SpecBatch == BatchInit /\ [][BatchNext]_vars

\* The datasets of the runs under fair scheduling: the table already has its
\* result column and each abstract is a text or missing (an empty abstract
\* takes the path of a missing one, analyzer.py:23 and :46).
FairInit ==
    /\ BatchInit
    /\ hasAnswerCol
    /\ \A i \in Rows : abstracts[i] # EmptyStr

\* The scheduling the threads run under: as long as the calling thread or a
\* pool thread can take a step, or a request is outstanding (each request
\* returns or fails in the end), a step is taken.
SpecBatchFair == FairInit /\ [][BatchNext]_vars /\ WF_vars(BatchNext)


\* processor.py:34  `.fillna("").astype(str)`: a missing cell reads as "".
FillNa(cell) == IF cell = NaN THEN EmptyStr ELSE cell

\* processor.py:111  `str(row[column])`: a missing cell reads as "nan".
PyStr(cell) == IF cell = NaN THEN <<"n", "a", "n">> ELSE cell

(***************************************************************************)
(* processor.py: extract_entities, find_similar_entities,                  *)
(* substitute_similar_entities, process_entities.                          *)
(***************************************************************************)
\* processor.py:28-40  the stripped sides of every pair of every cell,
\* without the empty ones, sorted.
ExtractEntities(column) ==
    LET found == UNION {UNION {{pr[1], pr[2]} : pr \in Range(ExtractPairs(FillNa(column[r])))}
                          : r \in DOMAIN column}
    IN Sorted({e \in found : e # << >>})

\* str.split(): the maximal runs of characters that are not whitespace.
Words(s) ==
    {SubSeq(s, ab[1], ab[2]) :
        ab \in {x \in (1 .. Len(s)) \X (1 .. Len(s)) :
                  /\ x[1] <= x[2]
                  /\ \A i \in x[1] .. x[2] : s[i] \notin Whitespace
                  /\ (x[1] = 1 \/ s[x[1] - 1] \in Whitespace)
                  /\ (x[2] = Len(s) \/ s[x[2] + 1] \in Whitespace)}}

\* config.similarity_threshold = 0.8, as the fraction 8 / 10.
ThresholdNum == 8
ThresholdDen == 10

\* Mutant of IsSimilarAt: only `s1_lower in s2_lower` is tested.
IsSimilarAtOneWay(s1, s2, num, den) ==
    LET words1 == Words(Lower(s1))
        words2 == Words(Lower(s2))
        common == Cardinality(words1 \cap words2)
        total == Cardinality(words1 \cup words2)
    IN \/ IsSubstr(Lower(s1), Lower(s2))
       \/ (total > 0 /\ common * den > num * total)

\* processor.py:86-99  _is_similar, the threshold being num / den
IsSimilarAt(s1, s2, num, den) ==
    LET s1_lower == Lower(s1)
        s2_lower == Lower(s2)
        words1 == Words(s1_lower)
        words2 == Words(s2_lower)
        common == Cardinality(words1 \cap words2)
        total == Cardinality(words1 \cup words2)
    IN \/ IsSubstr(s1_lower, s2_lower) \/ IsSubstr(s2_lower, s1_lower)
       \/ (total > 0 /\ common * den > num * total)

\* _is_similar with config.similarity_threshold
IsSimilar(s1, s2) == IsSimilarAt(s1, s2, ThresholdNum, ThresholdDen)

\* The test of the inner loop: processor.py:62-63 with a sentence model
\* (cosine similarity above the threshold), processor.py:78 without.
JudgedSimilar(a, b) ==
    IF use_embeddings THEN {a, b} \in emb_similar ELSE IsSimilar(a, b)

\* Mutant of DictPut: an existing key keeps its first value (setdefault).
DictPutKeepFirst(d, k, v) ==
    IF \E x \in DOMAIN d : d[x][1] = k THEN d ELSE Append(d, <<k, v>>)

\* similar_phrases[k] = v on a dict: a new key goes to the end, an existing
\* key keeps its place and takes the new value.
DictPut(d, k, v) ==
    IF \E x \in DOMAIN d : d[x][1] = k
      THEN [x \in DOMAIN d |-> IF d[x][1] = k THEN <<k, v>> ELSE d[x]]
      ELSE Append(d, <<k, v>>)

\* Mutant of KeepsFirst: on equal lengths the later string is kept.
KeepsFirstStrict(ei, ej) == Len(ei) < Len(ej)

\* processor.py:64 and :79  `len(entities[i]) <= len(entities[j])`
KeepsFirst(ei, ej) == Len(ei) <= Len(ej)

\* processor.py:75-82 (and :60-68)  the two nested loops, from (i, j) on.
RECURSIVE SimilarLoop(_, _, _, _)
SimilarLoop(ents, i, j, d) ==
    IF i > Len(ents) THEN d
    ELSE IF j > Len(ents) THEN SimilarLoop(ents, i + 1, i + 2, d)
    ELSE SimilarLoop(ents, i, j + 1,
           IF JudgedSimilar(ents[i], ents[j])
             THEN IF KeepsFirst(ents[i], ents[j])
                    THEN DictPut(d, ents[j], ents[i])
                    ELSE DictPut(d, ents[i], ents[j])
             ELSE d)

\* The end of the chain that starts at v in the map d, followed for at most
\* `fuel` entries.
RECURSIVE ChainEnd(_, _, _)
ChainEnd(d, v, fuel) ==
    IF fuel = 0 \/ ~(\E x \in DOMAIN d : d[x][1] = v) THEN v
    ELSE ChainEnd(d, d[CHOOSE x \in DOMAIN d : d[x][1] = v][2], fuel - 1)

\* Mutant of FindSimilarEntities: every entry is re-pointed to the end of
\* its chain.
FindSimilarEntitiesResolved(ents) ==
    LET d == IF ents = << >> THEN << >> ELSE SimilarLoop(ents, 1, 2, << >>)
    IN [x \in DOMAIN d |-> <<d[x][1], ChainEnd(d, d[x][2], Len(d))>>]

\* Mutant of FindSimilarEntities: the first entity is also compared with
\* itself.
FindSimilarEntitiesFromSelf(ents) ==
    IF ents = << >> THEN << >> ELSE SimilarLoop(ents, 1, 1, << >>)

\* processor.py:42-51  find_similar_entities
FindSimilarEntities(ents) ==
    IF ents = << >> THEN << >> ELSE SimilarLoop(ents, 1, 2, << >>)

\* Mutant of PyReplace: str.replace(old, new, 1).
RECURSIVE PyReplaceFirst(_, _, _)
PyReplaceFirst(s, old, new) ==
    IF Len(s) < Len(old) \/ old = << >> THEN s
    ELSE IF SubSeq(s, 1, Len(old)) = old
           THEN new \o SubSeq(s, Len(old) + 1, Len(s))
           ELSE <<Head(s)>> \o PyReplaceFirst(Tail(s), old, new)

\* str.replace(old, new): the occurrences of old are found from the left
\* and do not overlap.  (For old = "" Python puts new around every
\* character.)
RECURSIVE PyReplace(_, _, _)
PyReplace(s, old, new) ==
    IF old = << >>
      THEN IF s = << >> THEN new ELSE new \o <<Head(s)>> \o PyReplace(Tail(s), old, new)
    ELSE IF Len(s) < Len(old) THEN s
    ELSE IF SubSeq(s, 1, Len(old)) = old
           THEN new \o PyReplace(SubSeq(s, Len(old) + 1, Len(s)), old, new)
           ELSE <<Head(s)>> \o PyReplace(Tail(s), old, new)

\* processor.py:111-113  `for similar, original in similar_phrases.items()`
RECURSIVE ReplaceEach(_, _)
ReplaceEach(cell_value, items) ==
    IF items = << >> THEN cell_value
    ELSE ReplaceEach(PyReplace(cell_value, Head(items)[1], Head(items)[2]), Tail(items))

\* processor.py:101-117  substitute_similar_entities
SubstituteSimilarEntities(column, items) ==
    IF items = << >> THEN column
    ELSE [r \in DOMAIN column |-> ReplaceEach(PyStr(column[r]), items)]

eA == <<"a">>
eB == <<"b">>
eAB == <<"a", "b">>
eUpperAB == <<"A", "B">>
eA_B == <<"a", " ", "b">>
eB_A == <<"b", " ", "a">>
EntityPool == <<eA, eB, eAB, eUpperAB, eA_B, eB_A>>

\* A cell with text outside its pair: "xab(a, ab)".
FreeTextCell == <<"x", "a", "b">> \o PairText(eA, eAB)

\* One pair per cell (the two sides in either order give the same entities,
\* so one order is taken), the cell with free text and the missing cell.
EntityCellTexts ==
    {PairText(EntityPool[ij[1]], EntityPool[ij[2]]) :
        ij \in {x \in (DOMAIN EntityPool) \X (DOMAIN EntityPool) : x[1] <= x[2]}}
      \cup {FreeTextCell, NaN}

\* The pairs a sentence model may judge similar.
EmbeddingPairs == {{eA, eAB}, {eAB, eB}, {eA, eB}}

EntityInit ==
    /\ BatchIdle /\ ExtractIdle /\ GraphIdle /\ BuildIdle /\ CliIdle /\ SimilarIdle
    /\ df_cells \in UNION {[1 .. n -> EntityCellTexts] : n \in 0 .. MaxCells}
    /\ \/ use_embeddings = FALSE /\ emb_similar = {}
       \/ use_embeddings = TRUE /\ emb_similar \in SUBSET EmbeddingPairs
    /\ entities = << >>
    /\ similar_phrases = << >>
    /\ processed_cells = << >>
    /\ final_entities = << >>
    /\ statistics = None
    /\ epc = "ready"

\* processor.py:119-126  process_entities
ProcessEntities ==
    /\ epc = "ready"
    /\ entities' = ExtractEntities(df_cells)
    /\ similar_phrases' = FindSimilarEntities(entities')
    /\ processed_cells' = SubstituteSimilarEntities(df_cells, similar_phrases')
    /\ final_entities' = ExtractEntities(processed_cells')
    /\ epc' = "done"
    /\ UNCHANGED <<df_cells, use_embeddings, emb_similar, statistics>>
    /\ UNCHANGED nonEntityVars

EntityNext == ProcessEntities

SpecEntities == EntityInit /\ [][EntityNext]_vars

\* core.py:93-99  `processed_df, entities, similar_phrases =
\* process_entities(df)` binds `entities` to the entities of the processed
\* table; total_entities = len(entities) and
\* unique_entities = len(entities) - len(similar_phrases).
RecordStatistics ==
    /\ epc = "done"
    /\ statistics' = Some([total_entities |-> Len(final_entities),
                           unique_entities |-> Len(final_entities) - Len(similar_phrases)])
    /\ epc' = "recorded"
    /\ UNCHANGED <<df_cells, use_embeddings, emb_similar, entities,
                   similar_phrases, processed_cells, final_entities>>
    /\ UNCHANGED nonEntityVars

StatisticsNext == ProcessEntities \/ RecordStatistics

SpecStatistics == EntityInit /\ [][StatisticsNext]_vars

(***************************************************************************)
(* processor.py: _is_similar applied to two strings, both ways round.      *)
(***************************************************************************)

\* The characters of the strings compared.
NameChars == {"a", "A", "b", " "}

\* The strings compared: every string of at most MaxNameLen characters.
Names == UNION {[1 .. n -> NameChars] : n \in 0 .. MaxNameLen}

\* Values of config.similarity_threshold, as <<num, den>>: 0, 0.5, 0.8, 1.
Thresholds == {<<0, 1>>, <<1, 2>>, <<ThresholdNum, ThresholdDen>>, <<1, 1>>}

SimilarInit ==
    /\ BatchIdle /\ ExtractIdle /\ GraphIdle /\ EntityIdle /\ BuildIdle
    /\ CliIdle
    /\ str_a \in Names
    /\ str_b \in Names
    /\ threshold \in Thresholds
    /\ similar_ab = FALSE
    /\ similar_ba = FALSE
    /\ spc = "ready"

\* processor.py:78  self._is_similar(entity1, entity2), and the call with
\* the arguments exchanged
IsSimilarCalls ==
    /\ spc = "ready"
    /\ similar_ab' = IsSimilarAt(str_a, str_b, threshold[1], threshold[2])
    /\ similar_ba' = IsSimilarAt(str_b, str_a, threshold[1], threshold[2])
    /\ spc' = "done"
    /\ UNCHANGED <<str_a, str_b, threshold>>
    /\ UNCHANGED nonSimilarVars

SimilarNext == IsSimilarCalls

SpecSimilar == SimilarInit /\ [][SimilarNext]_vars

(***************************************************************************)
(* Claims about batch_analyze.                                             *)
(***************************************************************************)
\* What the claims expect in the cell of a processed row: the reply to that
\* row's own abstract, or the empty string when the abstract is missing or
\* the row's call failed.
ExpectedCell(i) ==
    IF hasAbstractCol /\ ~IsMissing(AbstractOf(i)) /\ ~llmFailed[i]
      THEN Reply(AbstractText(i))
      ELSE EmptyStr

\* C1: in parallel mode no cell is ever written twice and a written cell
\* holds the result of its own row; when batch_analyze returns, every row
\* with index >= start_row has been written exactly once with the result of
\* its own abstract (the empty string on failure or a missing abstract), and
\* no row below start_row was written.
C1_ParallelEveryRowOnce ==
    use_parallel /\ mpc # "off" =>
      /\ \A i \in Rows :
           /\ writes[i] <= 1
           /\ writes[i] = 1 => (i >= start_row /\ answer[i] = ExpectedCell(i))
           /\ \A j \in Rows \ {i} : answer[i] # Reply(AbstractText(j))
      /\ mpc = "returned" => \A i \in RowsToProcess : writes[i] = 1

\* C1 witness: a parallel batch has returned in which two rows got their own
\* (different) replies, a third row's call failed, and two workers ran.
C1_Witness ==
    /\ use_parallel /\ mpc = "returned" /\ max_workers >= 2
    /\ \E i, j, k \in RowsToProcess :
         /\ i # j
         /\ answer[i] = Reply(AbstractText(i))
         /\ answer[j] = Reply(AbstractText(j))
         /\ llmFailed[k] /\ answer[k] = EmptyStr /\ writes[k] = 1

\* C2: once a language-model call has failed, batch_analyze never ends by
\* raising, it can always go on until it returns, and when it has returned
\* each failed row holds the empty string and every other processed row its
\* own result; this in sequential and in parallel mode.
C2_FailureDoesNotAbort ==
    (mpc # "off" /\ \E k \in Rows : llmFailed[k]) =>
      /\ mpc # "raised"
      /\ mpc # "returned" => ENABLED BatchNext
      /\ mpc = "returned" =>
           \A i \in RowsToProcess :
             /\ llmFailed[i] => answer[i] = EmptyStr
             /\ ~llmFailed[i] =>
                  answer[i] = IF IsMissing(AbstractOf(i)) THEN EmptyStr
                              ELSE Reply(AbstractText(i))

\* C2 witness: a sequential batch has returned after the call of its first
\* processed row failed, and a later row holds its own reply.
C2_Witness ==
    /\ ~use_parallel /\ mpc = "returned"
    /\ \E k, i \in RowsToProcess :
         /\ k < i /\ llmFailed[k] /\ answer[k] = EmptyStr
         /\ answer[i] = Reply(AbstractText(i))


(***************************************************************************)
(* Claims about pair extraction.                                           *)
(***************************************************************************)
\* A group in the claim's words: s[p] is "(", s[c] the comma, s[q] is ")",
\* one or more characters other than "," between p and c, then k >= 0
\* whitespace characters and one or more characters other than ")".
IsGroup(s, p, c, q) ==
    /\ s[p] = "(" /\ s[c] = "," /\ s[q] = ")"
    /\ c >= p + 2
    /\ \A x \in (p + 1) .. (c - 1) : s[x] # ","
    /\ \E k \in 0 .. (q - c - 2) :
         /\ \A x \in (c + 1) .. (c + k) : s[x] \in Whitespace
         /\ \A x \in (c + k + 1) .. (q - 1) : s[x] # ")"

GroupsAt(s, p) ==
    {cq \in ((p + 2) .. Len(s)) \X ((p + 4) .. Len(s)) :
        cq[1] < cq[2] /\ IsGroup(s, p, cq[1], cq[2])}

GroupStarts(s) == {p \in 1 .. Len(s) : GroupsAt(s, p) # {}}

\* x without its leading and trailing whitespace.
Trimmed(x) ==
    LET solid == {i \in 1 .. Len(x) : x[i] \notin Whitespace} IN
      IF solid = {} THEN << >> ELSE SubSeq(x, SetMin(solid), SetMax(solid))

\* The two sides of the group that starts at p, trimmed.
GroupPair(s, p) ==
    LET cq == CHOOSE g \in GroupsAt(s, p) : TRUE IN
      <<Trimmed(SubSeq(s, p + 1, cq[1] - 1)), Trimmed(SubSeq(s, cq[1] + 1, cq[2] - 1))>>

GroupEnd(s, p) == (CHOOSE g \in GroupsAt(s, p) : TRUE)[2]

\* The starts of all groups, in increasing order.
RECURSIVE Ascending(_)
Ascending(S) == IF S = {} THEN << >> ELSE <<SetMin(S)>> \o Ascending(S \ {SetMin(S)})

\* The starts of the groups a left-to-right scan meets when, after a group,
\* it resumes behind that group's close-paren.
RECURSIVE ScanStarts(_, _)
ScanStarts(s, from) ==
    LET later == {p \in GroupStarts(s) : p >= from} IN
      IF later = {} THEN << >>
      ELSE <<SetMin(later)>> \o ScanStarts(s, GroupEnd(s, SetMin(later)) + 1)

PairsAt(s, starts) == [i \in 1 .. Len(starts) |-> GroupPair(s, starts[i])]

ExamplePairs == <<(<<Gene1, Protein2>>), (<<Protein2, Pathway3>>)>>

\* C4 as claimed: extraction returns, in order of occurrence, exactly the
\* groups of the claimed form, trimmed, i.e. one pair for every place of the
\* text where such a group stands.
C4_Original_AllGroups ==
    xpc = "done" => pairs = PairsAt(text, Ascending(GroupStarts(text)))

\* C4 amended: extraction returns, in order of occurrence and trimmed, the
\* groups of the claimed form that a left-to-right scan meets when it resumes
\* behind the close-paren of each group it returns (a group that starts
\* inside a returned group is not returned); a text without a group gives
\* the empty sequence; the example text gives its two pairs.
C4_ScanGroups ==
    xpc = "done" =>
      /\ pairs = PairsAt(text, ScanStarts(text, 1))
      /\ GroupStarts(text) = {} => pairs = << >>
      /\ text = ExampleText => pairs = ExamplePairs

\* C4 witness: an extraction has returned two different pairs.
C4_Witness == xpc = "done" /\ Len(pairs) = 2 /\ pairs[1] # pairs[2]


(***************************************************************************)
(* visualizer.py: the networkx graph and _search_network.                  *)
(* A graph is [nodes, edges]: nodes in insertion order, each labelled with *)
(* its own name (visualizer.py:75-76); an edge is the set of its one       *)
(* (self-loop) or two end nodes.                                           *)
(***************************************************************************)
\* G.add_node(n, label=n)
AddNode(g, n) ==
    IF n \in Range(g.nodes) THEN g ELSE [g EXCEPT !.nodes = Append(@, n)]

\* G.add_edge(a, b, ...): nx.Graph keeps one edge per pair of nodes.
AddEdge(g, a, b) ==
    LET g2 == AddNode(AddNode(g, a), b) IN [g2 EXCEPT !.edges = @ \cup {{a, b}}]

\* graph.neighbors(n)
Neighbors(g, n) == {m \in Range(g.nodes) : {n, m} \in g.edges}

\* visualizer.py:120-125  `for _ in range(depth)`: each round adds the
\* neighbours of every node of interest.
RECURSIVE Expand(_, _, _)
Expand(g, nodes_of_interest, rounds) ==
    IF rounds <= 0 THEN nodes_of_interest
    ELSE Expand(g,
                nodes_of_interest \cup UNION {Neighbors(g, n) : n \in nodes_of_interest},
                rounds - 1)

\* graph.subgraph(S): the nodes of S in the graph's order, the edges of the
\* graph with both ends in S.
Subgraph(g, S) ==
    [nodes |-> SelectSeq(g.nodes, LAMBDA n : n \in S),
     edges |-> {e \in g.edges : e \subseteq S}]

\* visualizer.py:108-114  nodes whose label contains the keyword, both
\* lower-cased.
SeedNodes(g, keyword) ==
    {n \in Range(g.nodes) : IsSubstr(Lower(keyword), Lower(n))}

\* Mutant of SearchNetwork: without a seed the whole graph is returned.
SearchNetworkAllWhenNoSeed(g, keyword, d) ==
    IF SeedNodes(g, keyword) = {}
      THEN g
      ELSE Subgraph(g, Expand(g, SeedNodes(g, keyword), d))

\* Mutant of SearchNetwork: the label is compared without lower-casing it.
SearchNetworkCaseSensitive(g, keyword, d) ==
    LET seeds == {n \in Range(g.nodes) : IsSubstr(Lower(keyword), n)} IN
      IF seeds = {} THEN EmptyGraph ELSE Subgraph(g, Expand(g, seeds, d))

\* visualizer.py:106-127  _search_network
SearchNetwork(g, keyword, d) ==
    IF SeedNodes(g, keyword) = {}
      THEN EmptyGraph
      ELSE Subgraph(g, Expand(g, SeedNodes(g, keyword), d))

(***************************************************************************)
(* _search_network on its own: any graph over a few labelled nodes.        *)
(***************************************************************************)
nA == <<"A">>
nB == <<"B">>
nC == <<"C">>
nab == <<"a", "b">>
SearchNodeNames == {nA, nB, nC, nab}
SearchKeywords == {<<"A">>, <<"a">>, <<"b">>, <<"A", "B">>, <<"c">>, <<"x">>, << >>}

SearchInit ==
    /\ BatchIdle /\ ExtractIdle /\ EntityIdle /\ BuildIdle /\ CliIdle /\ SimilarIdle
    /\ cells = << >> /\ exclude_entities = {}
    /\ \E N \in SUBSET SearchNodeNames :
         \E E \in SUBSET {e \in SUBSET N : Cardinality(e) \in {1, 2}} :
           G = [nodes |-> Sorted(N), edges |-> E]
    /\ search_keyword \in SearchKeywords
    /\ depth \in 0 .. MaxDepth
    /\ filtered_graph = EmptyGraph
    /\ ret = NoReturn
    /\ network_stats = NoStats
    /\ gpc = "ready"

\* One call of _search_network(G, search_keyword, depth).
Search ==
    /\ gpc = "ready"
    /\ filtered_graph' = SearchNetwork(G, search_keyword, depth)
    /\ gpc' = "done"
    /\ UNCHANGED <<cells, exclude_entities, search_keyword, depth, G, ret,
                   network_stats>>
    /\ UNCHANGED nonGraphVars

SearchNext == Search

SpecSearch == SearchInit /\ [][SearchNext]_vars

(***************************************************************************)
(* visualizer.py: create_filtered_network.                                 *)
(***************************************************************************)
\* Mutant of AcceptTriple: only the first entity is checked against the
\* exclusion list.
AcceptTripleFirstOnly(entity_a, entity_b, excl) ==
    /\ entity_a # << >> /\ entity_b # << >>
    /\ ~\E exc \in excl : IsSubstr(exc, entity_a)

\* visualizer.py:71-73  the condition under which a pair enters the graph.
AcceptTriple(entity_a, entity_b, excl) ==
    /\ entity_a # << >> /\ entity_b # << >>
    /\ ~\E exc \in excl : IsSubstr(exc, entity_a)
    /\ ~\E exc \in excl : IsSubstr(exc, entity_b)

\* visualizer.py:67-77  the pairs of one cell value, in order.
RECURSIVE AddPairs(_, _, _)
AddPairs(g, ps, excl) ==
    IF ps = << >> THEN g
    ELSE LET a == Head(ps)[1]
             b == Head(ps)[2]
         IN AddPairs(IF AcceptTriple(a, b, excl) THEN AddEdge(g, a, b) ELSE g,
                     Tail(ps), excl)

\* visualizer.py:61-77  `for _, row in df.iterrows()`
RECURSIVE BuildFiltered(_, _, _)
BuildFiltered(g, rows, excl) ==
    IF rows = << >> THEN g
    ELSE BuildFiltered(AddPairs(g, ExtractPairs(Head(rows)), excl), Tail(rows), excl)

FilterWords == {<<"P">>, <<"p">>, <<"x", "P">>, <<" ">>}
FilterCellTexts == {PairText(a, b) : a, b \in FilterWords}
ExclusionStrings == {<<"P">>, <<"p">>, << >>}
FilterKeywords == {<<"p">>, <<"x">>}
FilterDepths == {0, 1}

FilterInit ==
    /\ BatchIdle /\ ExtractIdle /\ EntityIdle /\ BuildIdle /\ CliIdle /\ SimilarIdle
    /\ cells \in UNION {[1 .. n -> FilterCellTexts] : n \in 0 .. MaxCells}
    /\ exclude_entities \in SUBSET ExclusionStrings
    /\ search_keyword \in FilterKeywords
    /\ depth \in FilterDepths
    /\ G = EmptyGraph
    /\ filtered_graph = EmptyGraph
    /\ ret = NoReturn
    /\ network_stats = NoStats
    /\ gpc = "ready"

\* visualizer.py:54-104  create_filtered_network: build G, search it, and
\* return ("", []) when the search found no node, else the name of the
\* written document and the node names.
CreateFilteredNetwork ==
    /\ gpc = "ready"
    /\ G' = BuildFiltered(EmptyGraph, cells, exclude_entities)
    /\ filtered_graph' = SearchNetwork(G', search_keyword, depth)
    /\ ret' = IF filtered_graph'.nodes = << >>
                THEN [filename |-> "", node_names |-> << >>]
                ELSE [filename |-> "filtered_network.html",
                      node_names |-> filtered_graph'.nodes]
    /\ gpc' = "done"
    /\ UNCHANGED <<cells, exclude_entities, search_keyword, depth, network_stats>>
    /\ UNCHANGED nonGraphVars

FilterNext == CreateFilteredNetwork

SpecFilter == FilterInit /\ [][FilterNext]_vars

(***************************************************************************)
(* Claims about create_filtered_network.                                   *)
(***************************************************************************)
\* The pairs of the dataset: every pair of every cell.
Triples == UNION {Range(ExtractPairs(cells[r])) : r \in DOMAIN cells}

HasExcluded(entity) == \E exc \in exclude_entities : IsSubstr(exc, entity)

\* C5: the graph create_filtered_network builds holds the two nodes and the
\* edge of a pair if and only if both entities are non-empty and neither
\* contains a string of the exclusion list; it holds nothing else; no node
\* of the graph and no returned node name contains an excluded string.
C5_ExclusionFilter ==
    gpc = "done" =>
     LET triples == Triples IN
      /\ \A t \in triples :
           ({t[1], t[2]} \subseteq Range(G.nodes) /\ {t[1], t[2]} \in G.edges)
             <=> (t[1] # << >> /\ t[2] # << >>
                    /\ ~HasExcluded(t[1]) /\ ~HasExcluded(t[2]))
      /\ \A e \in G.edges : \E t \in triples : e = {t[1], t[2]}
      /\ \A n \in Range(G.nodes) : \E e \in G.edges : n \in e
      /\ \A n \in Range(G.nodes) \cup Range(ret.node_names) : ~HasExcluded(n)
      /\ Range(ret.node_names) \subseteq Range(G.nodes)

\* C5 witness: with "P" excluded, a pair with an entity containing "P" was
\* dropped, another pair was kept, and node names were returned.
C5_Witness ==
    /\ gpc = "done" /\ exclude_entities = {<<"P">>}
    /\ \E t \in Triples : t[2] = <<"x", "P">> /\ t[1] = <<"p">>
    /\ G.edges = {{<<"p">>}}
    /\ ret.node_names = <<(<<"p">>)>>

(***************************************************************************)
(* Claims about _search_network.                                           *)
(***************************************************************************)
\* Two characters that are the same letter, whatever the case.
SameLetter(c, d) == c = d \/ LowerChar(c) = d \/ c = LowerChar(d)

\* The label contains the keyword, compared case-insensitively.
ContainsIgnoringCase(label, keyword) ==
    \E off \in 0 .. (Len(label) - Len(keyword)) :
      \A i \in 1 .. Len(keyword) : SameLetter(label[off + i], keyword[i])

IsSeed(g, n) == n \in Range(g.nodes) /\ ContainsIgnoringCase(n, search_keyword)

\* n is at most d hops away from some seed node.
RECURSIVE WithinHops(_, _, _)
WithinHops(g, n, d) ==
    \/ IsSeed(g, n)
    \/ /\ d > 0
       /\ \E m \in Range(g.nodes) : {m, n} \in g.edges /\ WithinHops(g, m, d - 1)

PathABC == [nodes |-> <<nA, nB, nC>>, edges |-> {{nA, nB}, {nB, nC}}]

\* C3: _search_network returns the subgraph induced on exactly the nodes
\* within `depth` hops of a seed node: those nodes, every edge of the graph
\* between two of them, and nothing else; depth 0 gives the seed nodes and
\* the edges among them; the path A-B-C with keyword "A" and depth 1 gives
\* nodes {A, B} and the edge (A, B).
C3_InducedSubgraphWithinDepth ==
    gpc = "done" =>
      LET near == {n \in Range(G.nodes) : WithinHops(G, n, depth)} IN
        /\ Range(filtered_graph.nodes) = near
        /\ Len(filtered_graph.nodes) = Cardinality(near)
        /\ filtered_graph.edges = {e \in G.edges : e \subseteq near}
        /\ depth = 0 =>
             /\ Range(filtered_graph.nodes) = {n \in Range(G.nodes) : IsSeed(G, n)}
             /\ filtered_graph.edges =
                  {e \in G.edges : \A n \in e : IsSeed(G, n)}
        /\ (G = PathABC /\ search_keyword = <<"A">> /\ depth = 1) =>
             /\ Range(filtered_graph.nodes) = {nA, nB}
             /\ filtered_graph.edges = {{nA, nB}}

\* C3 witness: a search at depth 1 whose seed was matched only through the
\* case folding, which reached a neighbour and left a node two hops away
\* out.
C3_Witness ==
    /\ gpc = "done" /\ depth = 1
    /\ search_keyword = <<"A", "B">>
    /\ Range(filtered_graph.nodes) = {nab, nB}
    /\ nC \in Range(G.nodes) /\ {nB, nC} \in G.edges
    /\ filtered_graph.edges = {{nab, nB}}


(***************************************************************************)
(* Claims about find_similar_entities and substitute_similar_entities.     *)
(***************************************************************************)
Keys(items) == {items[x][1] : x \in DOMAIN items}
Lookup(items, k) == (CHOOSE x \in DOMAIN items : items[x][1] = k)
ValueOf(items, k) == items[Lookup(items, k)][2]
IndexOf(seq, e) == CHOOSE x \in DOMAIN seq : seq[x] = e

\* The pairs (i, j), i < j, of the entity list that were judged similar.
SimilarPairs ==
    {ij \in (DOMAIN entities) \X (DOMAIN entities) :
        ij[1] < ij[2] /\ JudgedSimilar(entities[ij[1]], entities[ij[2]])}

\* Of a pair: its duplicate is the longer string, and the later one when
\* both have the same length; its canonical is the other one.
DuplicateOf(ij) ==
    IF Len(entities[ij[1]]) > Len(entities[ij[2]]) THEN entities[ij[1]] ELSE entities[ij[2]]
CanonicalOf(ij) ==
    IF Len(entities[ij[1]]) > Len(entities[ij[2]]) THEN entities[ij[2]] ELSE entities[ij[1]]

\* (i, j) is visited before (k, l) by the two nested loops.
VisitedBefore(ij, kl) == ij[1] < kl[1] \/ (ij[1] = kl[1] /\ ij[2] < kl[2])

\* C6 as claimed: for every pair judged similar (of different lengths, so
\* that it has a longer string) the map sends the pair's longer string to the
\* pair's shorter string.
C6_Original_EveryPairMapped ==
    epc = "done" =>
      \A ij \in SimilarPairs :
        Len(entities[ij[1]]) # Len(entities[ij[2]]) =>
          /\ DuplicateOf(ij) \in Keys(similar_phrases)
          /\ ValueOf(similar_phrases, DuplicateOf(ij)) = CanonicalOf(ij)

\* C6 amended: the duplicate of every pair judged similar is a key of the
\* map, every key is the duplicate of such a pair, and a key is sent to the
\* canonical of the last visited similar pair of which it is the duplicate
\* (the canonical of an earlier pair with the same duplicate is overwritten).
C6_LastPairWins ==
    epc = "done" =>
      /\ \A ij \in SimilarPairs :
           /\ DuplicateOf(ij) \in Keys(similar_phrases)
           /\ (\A kl \in SimilarPairs :
                 DuplicateOf(kl) = DuplicateOf(ij) => ~VisitedBefore(ij, kl))
                => ValueOf(similar_phrases, DuplicateOf(ij)) = CanonicalOf(ij)
      /\ \A k \in Keys(similar_phrases) : \E ij \in SimilarPairs : DuplicateOf(ij) = k
      /\ \A x, y \in DOMAIN similar_phrases :
           similar_phrases[x][1] = similar_phrases[y][1] => x = y

\* C6 witness: a string is the duplicate of two similar pairs with different
\* canonicals, and the map holds the canonical of the later pair.
C6_Witness ==
    /\ epc = "done"
    /\ \E ij, kl \in SimilarPairs :
         /\ VisitedBefore(ij, kl)
         /\ DuplicateOf(ij) = DuplicateOf(kl)
         /\ CanonicalOf(ij) # CanonicalOf(kl)
         /\ Len(CanonicalOf(ij)) < Len(DuplicateOf(ij))
         /\ ValueOf(similar_phrases, DuplicateOf(ij)) = CanonicalOf(kl)

\* C7: in every entry duplicate -> canonical of the map both are entities
\* of the list, the canonical has at most as many characters as the
\* duplicate, and when both have the same length the canonical is the one
\* that stands earlier in the entity list.
C7_CanonicalNotLonger ==
    epc = "done" =>
      \A x \in DOMAIN similar_phrases :
        LET duplicate == similar_phrases[x][1]
            canonical == similar_phrases[x][2]
        IN /\ duplicate \in Range(entities) /\ canonical \in Range(entities)
           /\ Len(canonical) <= Len(duplicate)
           /\ Len(canonical) = Len(duplicate) =>
                IndexOf(entities, canonical) < IndexOf(entities, duplicate)

\* C7 witness: the map holds an entry between two strings of equal length.
C7_Witness ==
    /\ epc = "done"
    /\ \E x \in DOMAIN similar_phrases :
         /\ Len(similar_phrases[x][1]) = Len(similar_phrases[x][2])
         /\ similar_phrases[x][1] = eAB /\ similar_phrases[x][2] = eUpperAB

\* The places where old stands in s, compared literally.
Occurrences(s, old) ==
    {q \in 1 .. (Len(s) - Len(old) + 1) : \A i \in 1 .. Len(old) : s[q + i - 1] = old[i]}

\* s cut at every occurrence of old, occurrences taken from the left.
RECURSIVE SplitOn(_, _)
SplitOn(s, old) ==
    IF Occurrences(s, old) = {} THEN <<s>>
    ELSE LET q == SetMin(Occurrences(s, old)) IN
         <<SubSeq(s, 1, q - 1)>> \o SplitOn(SubSeq(s, q + Len(old), Len(s)), old)

RECURSIVE JoinWith(_, _)
JoinWith(pieces, new) ==
    IF Len(pieces) = 1 THEN pieces[1]
    ELSE pieces[1] \o new \o JoinWith(Tail(pieces), new)

\* The cell text after the first k entries of the map have been applied, one
\* after another, each to the result of the one before.
RECURSIVE AfterEntries(_, _)
AfterEntries(cell, k) ==
    IF k = 0 THEN cell
    ELSE JoinWith(SplitOn(AfterEntries(cell, k - 1), similar_phrases[k][1]),
                  similar_phrases[k][2])

\* The text of a cell as substitute_similar_entities reads it: a missing
\* cell reads "nan".
CellText(cell) == IF cell = NaN THEN <<"n", "a", "n">> ELSE cell

\* C8: every cell of the processed column is the text of the original cell
\* with the entries of the map applied in map order, each replacing every
\* occurrence of its duplicate by its canonical, literally, in the result of
\* the entry before; the column keeps its rows, and with an empty map it is
\* returned as it was.
C8_SequentialLiteralReplace ==
    epc = "done" =>
      /\ DOMAIN processed_cells = DOMAIN df_cells
      /\ similar_phrases # << >> =>
           \A r \in DOMAIN df_cells :
             processed_cells[r] = AfterEntries(CellText(df_cells[r]), Len(similar_phrases))
      /\ similar_phrases = << >> => processed_cells = df_cells

\* C8 witness: a map of two or more entries was applied and changed text
\* that stands outside every pair ("xab" in front of the pair).
C8_Witness ==
    /\ epc = "done" /\ Len(similar_phrases) >= 2
    /\ \E r \in DOMAIN df_cells :
         /\ df_cells[r] = FreeTextCell
         /\ SubSeq(processed_cells[r], 1, 3) # <<"x", "a", "b">>

(***************************************************************************)
(* core.py: BioKGBuilder.build_knowledge_graph, with                       *)
(* searcher.py: PubMedSearcher.search_and_save and search_pubmed.          *)
(*                                                                         *)
(* Every component call of the try block is one step; a step either        *)
(* returns or raises.  A directory value is tagged with its Python type,   *)
(* because search_and_save may be handed an int where it expects a path.   *)
(***************************************************************************)
StrDir(name) == <<"str", name>>
IntDir(n) == <<"int", n>>

\* os.makedirs(d, exist_ok=True) accepts a str and raises TypeError on an int.
IsPath(d) == d[1] = "str"

\* config.output_dir
ConfigOutputDir == StrDir("output")

\* os.path.join(output_dir, <file name pattern>)
PathJoin(d, name) == <<d, name>>

MinOf(a, b) == IF a <= b THEN a ELSE b

\* The message of the exception a call raises.
ErrorOf(call) == <<"error in", call>>
TypeErrorMessage == <<"TypeError", "expected str, bytes or os.PathLike object, not int">>

BuildInit ==
    /\ BatchIdle /\ ExtractIdle /\ GraphIdle /\ EntityIdle /\ CliIdle /\ SimilarIdle
    /\ max_results \in {None} \cup {Some(n) : n \in 0 .. MaxResults}
    /\ arg_use_parallel \in {None, Some(TRUE), Some(FALSE)}
    /\ config_use_parallel \in BOOLEAN
    /\ original_parallel = None
    /\ first_parallel = config_use_parallel
    /\ batch_parallel = None
    /\ builds = 0
    /\ config_max_results \in 1 .. MaxResults
    /\ available \in 0 .. MaxResults
    /\ retmax = None /\ output_dir = None /\ id_count = 0 /\ df_len = 0
    /\ results_files = << >> /\ results_statistics = {} /\ results_keys = {}
    /\ results_error = None /\ calls = << >> /\ raised = None
    /\ bpc = "call"

\* core.py:65-72  the override of the parallel setting and the empty summary.
BuildCall ==
    /\ bpc = "call"
    /\ IF arg_use_parallel # None
         THEN /\ original_parallel' = Some(config_use_parallel)
              /\ config_use_parallel' = arg_use_parallel[1]
         ELSE UNCHANGED <<original_parallel, config_use_parallel>>
    /\ results_keys' = {"keyword", "files", "statistics"}
    /\ batch_parallel' = None
    /\ builds' = builds + 1
    /\ bpc' = "search_and_save"
    /\ UNCHANGED <<first_parallel, max_results, arg_use_parallel,
                   config_max_results, available,
                   retmax, output_dir, id_count, df_len, results_files,
                   results_statistics, results_error, calls, raised>>
    /\ UNCHANGED nonBuildVars

\* Mutant of AfterSearch: an empty frame goes on to the analysis.
AfterSearchNoShortCircuit(df) == "batch_analyze"

\* core.py:81-83  `if df.empty: return results`
AfterSearch(df) == IF df = 0 THEN "finally" ELSE "batch_analyze"

\* core.py:77-83  `df, search_file = self.searcher.search_and_save(keyword,
\* max_results)`, the two entries of the search stage and the early return
\* on an empty frame.  search_and_save (searcher.py:101-135) binds its second
\* parameter, output_dir, to the caller's max_results; search_pubmed is
\* called with the keyword only (searcher.py:116), so retmax is
\* config.max_results (searcher.py:33-38).  k ids come back, a articles are
\* parsed from them; failure names the request or write that raises.
SearchAndSave(k, a, failure) ==
    /\ bpc = "search_and_save"
    /\ LET dir == IF max_results = None THEN ConfigOutputDir
                  ELSE IntDir(max_results[1])
           limit == config_max_results
           found == failure # "esearch" /\ k > 0
           message ==
               IF failure = "esearch" THEN Some(ErrorOf("esearch"))
               ELSE IF found /\ failure = "efetch" THEN Some(ErrorOf("efetch"))
               ELSE IF found /\ ~IsPath(dir) THEN Some(TypeErrorMessage)
               ELSE IF found /\ failure = "to_excel" THEN Some(ErrorOf("to_excel"))
               ELSE None
           search_file ==
               IF k = 0 THEN None
               ELSE Some(PathJoin(dir, "pubmed_search_results.xlsx"))
           df == IF k = 0 THEN 0 ELSE a
       IN /\ k \in 0 .. MinOf(limit, available)
          /\ a \in 0 .. k
          /\ output_dir' = Some(dir)
          /\ retmax' = Some(limit)
          /\ id_count' = IF failure = "esearch" THEN 0 ELSE k
          /\ calls' = Append(calls, "search_and_save")
          /\ raised' = message
          /\ IF message # None
               THEN /\ bpc' = "except"
                    /\ UNCHANGED <<df_len, results_files, results_statistics>>
               ELSE /\ df_len' = df
                    /\ results_files' = DictPut(results_files, "search_results", search_file)
                    /\ results_statistics' = results_statistics \cup {"total_articles"}
                    /\ bpc' = AfterSearch(df)
    /\ UNCHANGED <<max_results, arg_use_parallel, config_use_parallel,
                   original_parallel, first_parallel, batch_parallel, builds,
                   config_max_results, available,
                   results_keys, results_error>>
    /\ UNCHANGED nonBuildVars

RECURSIVE PutFiles(_, _)
PutFiles(files, names) ==
    IF names = << >> THEN files
    ELSE PutFiles(DictPut(files, Head(names), Some(PathJoin(ConfigOutputDir, Head(names)))),
                  Tail(names))

\* One call of the try block after the search stage: it raises, or it
\* returns and the assignments that follow it record their entries.
Step(call, next, fileKeys, statKeys, topKeys, outcome) ==
    /\ bpc = call
    /\ calls' = Append(calls, call)
    /\ batch_parallel' = IF call = "batch_analyze"
                           THEN Some(config_use_parallel) ELSE batch_parallel
    /\ IF outcome = "raise"
         THEN /\ raised' = Some(ErrorOf(call))
              /\ bpc' = "except"
              /\ UNCHANGED <<results_files, results_statistics, results_keys>>
         ELSE /\ results_files' = PutFiles(results_files, fileKeys)
              /\ results_statistics' = results_statistics \cup statKeys
              /\ results_keys' = results_keys \cup topKeys
              /\ bpc' = next
              /\ UNCHANGED raised
    /\ UNCHANGED <<max_results, arg_use_parallel, config_use_parallel,
                   original_parallel, first_parallel, builds,
                   config_max_results, available, retmax,
                   output_dir, id_count, df_len, results_error>>
    /\ UNCHANGED nonBuildVars

\* core.py:87
BuildBatchAnalyze(outcome) ==
    Step("batch_analyze", "save_results", << >>, {}, {}, outcome)

\* core.py:88-89
BuildSaveResults(outcome) ==
    Step("save_results", "process_entities", <<"causal_analysis">>, {}, {}, outcome)

\* core.py:93
BuildProcessEntities(outcome) ==
    Step("process_entities", "save_processed_data", << >>, {}, {}, outcome)

\* core.py:94-99
BuildSaveProcessedData(outcome) ==
    Step("save_processed_data", "create_full_network", <<"processed_data">>,
         {"total_entities", "unique_entities"}, {"entities"}, outcome)

\* core.py:103-104
BuildCreateFullNetwork(outcome) ==
    Step("create_full_network", "create_filtered_network", <<"full_network">>,
         {}, {}, outcome)

\* core.py:106-110  create_filtered_network raises, returns a file name and
\* the node names, or - when no node matches the keyword - returns "" and
\* [] (visualizer.py:82-84); the two assignments follow in both cases.
BuildCreateFilteredNetwork(outcome) ==
    IF outcome = "empty"
      THEN /\ bpc = "create_filtered_network"
           /\ calls' = Append(calls, "create_filtered_network")
           /\ results_files' = DictPut(results_files, "filtered_network", Some(EmptyStr))
           /\ results_keys' = results_keys \cup {"node_names"}
           /\ bpc' = "analyze_network_structure"
           /\ UNCHANGED <<max_results, arg_use_parallel, config_use_parallel,
                          original_parallel, first_parallel, batch_parallel, builds,
                          config_max_results, available,
                          retmax, output_dir, id_count, df_len,
                          results_statistics, results_error, raised>>
           /\ UNCHANGED nonBuildVars
      ELSE Step("create_filtered_network", "analyze_network_structure",
                <<"filtered_network">>, {}, {"node_names"}, outcome)

\* core.py:113-114
BuildAnalyzeNetworkStructure(outcome) ==
    Step("analyze_network_structure", "generate_summary", << >>,
         {"network_stats"}, {}, outcome)

\* core.py:118-119  generate_summary catches the exception of its request
\* (generator.py:35-47) and returns a text in every case.
BuildGenerateSummary ==
    Step("generate_summary", "generate_full_report", << >>, {}, {"ai_summary"}, "ok")

\* core.py:121-130
BuildGenerateFullReport(outcome) ==
    Step("generate_full_report", "save_results_json", <<"report">>, {}, {}, outcome)

\* core.py:132-139  the last call, and `return results`.
BuildSaveResultsJson(outcome) ==
    Step("save_results_json", "finally", <<"json_results">>, {}, {}, outcome)

\* Mutant of Except: there is no handler, the exception leaves the call.
ExceptPropagates ==
    /\ bpc = "except"
    /\ bpc' = "propagated"
    /\ UNCHANGED <<max_results, arg_use_parallel, config_use_parallel,
                   original_parallel, first_parallel, batch_parallel, builds,
                   config_max_results, available, retmax,
                   output_dir, id_count, df_len, results_files,
                   results_statistics, results_keys, results_error, calls, raised>>
    /\ UNCHANGED nonBuildVars

\* core.py:141-144  `except Exception as e: results['error'] = str(e)`
Except ==
    /\ bpc = "except"
    /\ results_error' = raised
    /\ results_keys' = results_keys \cup {"error"}
    /\ bpc' = "finally"
    /\ UNCHANGED <<max_results, arg_use_parallel, config_use_parallel,
                   original_parallel, first_parallel, batch_parallel, builds,
                   config_max_results, available, retmax,
                   output_dir, id_count, df_len, results_files,
                   results_statistics, calls, raised>>
    /\ UNCHANGED nonBuildVars

\* Mutant of Finally: the setting is not restored.
FinallyWithoutRestore ==
    /\ bpc = "finally"
    /\ bpc' = "returned"
    /\ UNCHANGED <<max_results, arg_use_parallel, config_use_parallel,
                   original_parallel, first_parallel, batch_parallel, builds,
                   config_max_results, available, retmax, output_dir, id_count,
                   df_len, results_files, results_statistics, results_keys,
                   results_error, calls, raised>>
    /\ UNCHANGED nonBuildVars

\* core.py:146-149  the finally block, then the return of results.
Finally ==
    /\ bpc = "finally"
    /\ IF arg_use_parallel # None
         THEN config_use_parallel' = original_parallel[1]
         ELSE UNCHANGED config_use_parallel
    /\ bpc' = "returned"
    /\ UNCHANGED <<max_results, arg_use_parallel, original_parallel, first_parallel,
                   batch_parallel, builds, config_max_results, available,
                   retmax, output_dir, id_count,
                   df_len, results_files, results_statistics, results_keys,
                   results_error, calls, raised>>
    /\ UNCHANGED nonBuildVars

StepOutcomes == {"ok", "raise"}
FilterOutcomes == {"ok", "empty", "raise"}
SearchFailures == {"none", "esearch", "efetch", "to_excel"}

BuildNext ==
    \/ BuildCall
    \/ \E k, a \in 0 .. MaxResults : \E failure \in SearchFailures :
         SearchAndSave(k, a, failure)
    \/ \E outcome \in StepOutcomes : BuildBatchAnalyze(outcome)
    \/ \E outcome \in StepOutcomes : BuildSaveResults(outcome)
    \/ \E outcome \in StepOutcomes : BuildProcessEntities(outcome)
    \/ \E outcome \in StepOutcomes : BuildSaveProcessedData(outcome)
    \/ \E outcome \in StepOutcomes : BuildCreateFullNetwork(outcome)
    \/ \E outcome \in FilterOutcomes : BuildCreateFilteredNetwork(outcome)
    \/ \E outcome \in StepOutcomes : BuildAnalyzeNetworkStructure(outcome)
    \/ BuildGenerateSummary
    \/ \E outcome \in StepOutcomes : BuildGenerateFullReport(outcome)
    \/ \E outcome \in StepOutcomes : BuildSaveResultsJson(outcome)
    \/ Except
    \/ Finally

SpecBuild == BuildInit /\ [][BuildNext]_vars

\* core.py:52-54  the caller calls build_knowledge_graph once more on the
\* same builder, with arguments of its choice; the locals of the call before
\* are gone and the configuration is as that call left it.
CallAgain ==
    /\ bpc = "returned"
    /\ builds < MaxCalls
    /\ max_results' \in {None} \cup {Some(n) : n \in 0 .. MaxResults}
    /\ arg_use_parallel' \in {None, Some(TRUE), Some(FALSE)}
    /\ original_parallel' = None /\ batch_parallel' = None
    /\ retmax' = None /\ output_dir' = None /\ id_count' = 0 /\ df_len' = 0
    /\ results_files' = << >> /\ results_statistics' = {} /\ results_keys' = {}
    /\ results_error' = None /\ calls' = << >> /\ raised' = None
    /\ bpc' = "call"
    /\ UNCHANGED <<config_use_parallel, first_parallel, builds,
                   config_max_results, available>>
    /\ UNCHANGED nonBuildVars

\* A sequence of calls on one builder.
BuildsNext == BuildNext \/ CallAgain

SpecBuilds == BuildInit /\ [][BuildsNext]_vars

(***************************************************************************)
(* Claims about build_knowledge_graph.                                     *)
(***************************************************************************)
\* C9 as claimed: when build_knowledge_graph is called with max_results = n,
\* the search request asks the citation database for at most n records
\* (retmax = n), and the directory the search output is written to is the
\* configured output directory.
C9_MaxResultsLimitsSearch ==
    max_results # None =>
      /\ retmax # None => retmax = max_results
      /\ output_dir # None => output_dir = Some(ConfigOutputDir)

\* The order of the component calls, and the stage each belongs to.
CallOrder ==
    <<"search_and_save", "batch_analyze", "save_results", "process_entities",
      "save_processed_data", "create_full_network", "create_filtered_network",
      "analyze_network_structure", "generate_summary", "generate_full_report",
      "save_results_json">>

StageOrder ==
    <<"search", "causal analysis", "entity processing", "visualization", "report">>

StageOf(call) ==
    CASE call = "search_and_save" -> 1
      [] call \in {"batch_analyze", "save_results"} -> 2
      [] call \in {"process_entities", "save_processed_data"} -> 3
      [] call \in {"create_full_network", "create_filtered_network",
                   "analyze_network_structure"} -> 4
      [] OTHER -> 5

StageFiles(stage) ==
    CASE stage = 1 -> {"search_results"}
      [] stage = 2 -> {"causal_analysis"}
      [] stage = 3 -> {"processed_data"}
      [] stage = 4 -> {"full_network", "filtered_network"}
      [] OTHER -> {"report", "json_results"}

StageStatistics(stage) ==
    CASE stage = 1 -> {"total_articles"}
      [] stage = 3 -> {"total_entities", "unique_entities"}
      [] stage = 4 -> {"network_stats"}
      [] OTHER -> {}

FileKeys == {results_files[x][1] : x \in DOMAIN results_files}
StagesRun == {StageOf(calls[x]) : x \in DOMAIN calls}

\* C10: when a call of the try block has raised, the exception does not
\* leave build_knowledge_graph: the call ends by returning results with the
\* exception's message under 'error'.  results holds the files and statistics
\* entries of every stage before the failing one and no entry of a later
\* stage, no call of a later stage was made, and the calls made are always a
\* prefix of the pipeline's order, so the stages run are a prefix of search,
\* causal analysis, entity processing, visualization, report.
C10_FailureReturnsPartialResults ==
    /\ Len(calls) <= Len(CallOrder) /\ calls = SubSeq(CallOrder, 1, Len(calls))
    /\ \A st \in DOMAIN StageOrder : st \in StagesRun => \A earlier \in 1 .. st : earlier \in StagesRun
    /\ raised # None =>
         LET failing == StageOf(calls[Len(calls)]) IN
         /\ ~ENABLED BuildNext =>
              /\ bpc = "returned"
              /\ "error" \in results_keys /\ results_error = raised
         /\ \A st \in DOMAIN StageOrder :
              /\ st < failing =>
                   /\ StageFiles(st) \subseteq FileKeys
                   /\ StageStatistics(st) \subseteq results_statistics
              /\ st > failing =>
                   /\ StageFiles(st) \cap FileKeys = {}
                   /\ StageStatistics(st) \cap results_statistics = {}
                   /\ st \notin StagesRun

\* C10 witness: create_filtered_network raised, in the visualization stage;
\* the call has returned with the error and with the entries of the three
\* stages before it.
C10_Witness ==
    /\ bpc = "returned" /\ raised = Some(ErrorOf("create_filtered_network"))
    /\ results_error = raised
    /\ {"search_results", "causal_analysis", "processed_data"} \subseteq FileKeys
    /\ "report" \notin FileKeys

(***************************************************************************)
(* cli.py: the `build` and `search` commands, with utils/helpers.py        *)
(* (validate_email, validate_api_key) and config.py (the defaults).        *)
(***************************************************************************)
LowerLetters ==
    {"a", "b", "c", "d", "e", "f", "g", "h", "i", "j", "k", "l", "m", "n",
    "o", "p", "q", "r", "s", "t", "u", "v", "w", "x", "y", "z"}
UpperLetters ==
    {"A", "B", "C", "D", "E", "F", "G", "H", "I", "J", "K", "L", "M", "N",
    "O", "P", "Q", "R", "S", "T", "U", "V", "W", "X", "Y", "Z"}
Letters == LowerLetters \cup UpperLetters
Digits == {"0", "1", "2", "3", "4", "5", "6", "7", "8", "9"}

\* helpers.py:19-20  re.match(r'^[a-zA-Z0-9._%+-]+@[a-zA-Z0-9.-]+\.[a-zA-Z]{2,}$')
\* p is the place of the "@", q the place of the last-part dot, e the end
\* ("$" also matches in front of a final newline).
ValidateEmail(s) ==
    LET ends == {Len(s)} \cup (IF s # << >> /\ s[Len(s)] = "\n" THEN {Len(s) - 1} ELSE {})
    IN \E e \in ends : \E p \in 2 .. e : \E q \in (p + 2) .. (e - 2) :
         /\ s[p] = "@" /\ s[q] = "."
         /\ \A i \in 1 .. (p - 1) : s[i] \in Letters \cup Digits \cup {".", "_", "%", "+", "-"}
         /\ \A i \in (p + 1) .. (q - 1) : s[i] \in Letters \cup Digits \cup {".", "-"}
         /\ \A i \in (q + 1) .. e : s[i] \in Letters

\* helpers.py:34  `len(api_key) < 20`
MinKeyLen == 20

\* helpers.py:23-41  validate_api_key: long enough and, without "-" and "_",
\* non-empty and alphanumeric.
ValidateApiKey(s) ==
    /\ s # << >> /\ Len(s) >= MinKeyLen
    /\ \E i \in DOMAIN s : s[i] \notin {"-", "_"}
    /\ \A i \in DOMAIN s : s[i] \in Letters \cup Digits \cup {"-", "_"}

\* config.py:14 and :17  the values Config() takes when the environment
\* variable is not set.
DefaultEmail ==
    <<"l", "i", "u", "z", "a", "o", "q", "u", "@", "1", "6", "3", ".", "c",
    "o", "m">>
DefaultApiKey ==
    <<"s", "k", "-", "9", "4", "e", "4", "7", "4", "6", "6", "0", "6", "6",
    "1", "4", "3", "a", "7", "a", "6", "3", "f", "0", "1", "0", "6", "5",
    "3", "8", "0", "6", "e", "c", "3">>

GoodEmail == <<"a", "@", "b", ".", "c", "o">>
BadEmail == <<"a", "@", "b">>
GoodApiKey ==
    <<"s", "k", "-", "0", "1", "2", "3", "4", "5", "6", "7", "8", "9", "a",
    "b", "c", "d", "e", "f", "g">>
ShortApiKey == <<"s", "k", "-", "1">>
BadApiKey ==
    <<"s", "k", "-", "0", "1", "2", "3", "4", "5", "6", "7", "8", "9", "a",
    "b", "c", "d", "e", "!", "g">>

\* `x or y` on two optional strings: x when it is neither None nor "".
Truthy(x) == x # None /\ x[1] # EmptyStr
PyOr(x, y) == IF Truthy(x) THEN x ELSE y

\* os.getenv(name, default): the variable's value when it is set, even to "".
GetEnv(value, default) == IF value # None THEN value ELSE Some(default)

\* Config(**config_data): a field of the file, or the field's default.
FromFile(field, env, default) == IF field # None THEN field ELSE GetEnv(env, default)


EmailArgs == {None, Some(EmptyStr), Some(BadEmail), Some(GoodEmail)}
EmailSettings == {None, Some(BadEmail), Some(GoodEmail)}
ApiKeyArgs == {None, Some(ShortApiKey), Some(BadApiKey), Some(GoodApiKey)}
ApiKeySettings == {None, Some(ShortApiKey), Some(GoodApiKey)}

\* The command line, the environment and the configuration file.  With a
\* configuration file the flags and the file are the inputs that matter,
\* without one the flags and the environment; the search command reads the
\* e-mail flag and the environment only.
CliInit ==
    /\ BatchIdle /\ ExtractIdle /\ GraphIdle /\ EntityIdle /\ SimilarIdle
    /\ command \in {"build", "search"}
    /\ \/ /\ command = "build" /\ config_exists = TRUE
          /\ args_email = None /\ args_api_key = None
          /\ env_email \in EmailSettings /\ env_api_key \in ApiKeySettings
          /\ file_email \in EmailSettings /\ file_api_key \in ApiKeySettings
       \/ /\ command = "build" /\ config_exists = FALSE
          /\ args_email \in EmailArgs /\ args_api_key \in ApiKeyArgs
          /\ env_email \in EmailSettings /\ env_api_key \in ApiKeySettings
          /\ file_email = None /\ file_api_key = None
       \/ /\ command = "search" /\ config_exists = FALSE
          /\ args_email \in EmailArgs /\ args_api_key = None
          /\ env_email \in EmailSettings /\ env_api_key = None
          /\ file_email = None /\ file_api_key = None
    /\ args_max_results \in 1 .. MaxResults
    /\ dir_exists \in BOOLEAN
    /\ cfg_email = None /\ cfg_api_key = None
    /\ messages = << >> /\ exit_status = None /\ net_requests = << >>
    /\ cpc = "start"
    \* the builder's configuration and the citation database
    /\ max_results = None /\ arg_use_parallel = None
    /\ config_use_parallel = TRUE /\ original_parallel = None
    /\ first_parallel = TRUE /\ batch_parallel = None /\ builds = 0
    /\ config_max_results \in 1 .. MaxResults
    /\ available \in 0 .. MaxResults
    /\ retmax = None /\ output_dir = None /\ id_count = 0 /\ df_len = 0
    /\ results_files = << >> /\ results_statistics = {} /\ results_keys = {}
    /\ results_error = None /\ calls = << >> /\ raised = None
    /\ bpc = "off"

\* The process ends with a message and a status.
Exit(message, status) ==
    /\ messages' = Append(messages, message)
    /\ exit_status' = Some(status)
    /\ cpc' = "exited"

\* cli.py:123-160  handle_build_command up to the call of
\* build_knowledge_graph(keyword, max_results=args.max_results, ...).
\* file_loads: whether Config.from_file reads the file without raising (an
\* exception there is not caught and ends the process with status 1).
HandleBuildCommand(file_loads) ==
    /\ cpc = "start" /\ command = "build"
    /\ LET email == PyOr(args_email, env_email)
           api_key == PyOr(args_api_key, env_api_key)
           call == /\ max_results' = Some(args_max_results)
                   /\ bpc' = "call" /\ cpc' = "build"
                   /\ UNCHANGED <<messages, exit_status>>
           stop == UNCHANGED <<max_results, bpc, cfg_email, cfg_api_key>>
       IN IF config_exists
            THEN IF file_loads
                   THEN /\ cfg_email' = FromFile(file_email, env_email, DefaultEmail)
                        /\ cfg_api_key' = FromFile(file_api_key, env_api_key, DefaultApiKey)
                        /\ call
                   ELSE Exit("Traceback", 1) /\ stop
            ELSE IF ~Truthy(email) \/ ~Truthy(api_key)
                   THEN Exit("Error: Email and API key required", 1) /\ stop
            ELSE IF ~ValidateEmail(email[1])
                   THEN Exit("Error: Invalid email address", 1) /\ stop
            ELSE IF ~ValidateApiKey(api_key[1])
                   THEN Exit("Error: Invalid API key", 1) /\ stop
            ELSE /\ cfg_email' = email /\ cfg_api_key' = api_key
                 /\ call
    /\ UNCHANGED <<command, config_exists, args_email, args_api_key, env_email,
                   env_api_key, file_email, file_api_key, args_max_results,
                   dir_exists, net_requests>>
    /\ UNCHANGED <<arg_use_parallel, config_use_parallel, original_parallel, first_parallel,
                   batch_parallel, builds, config_max_results, available,
                   retmax, output_dir, id_count,
                   df_len, results_files, results_statistics, results_keys,
                   results_error, calls, raised>>
    /\ UNCHANGED nonCliBuildVars

\* Whether args.output_dir exists when the summary is written: it did
\* before the run, or a stage of the pipeline created it.
OutputDirPresent ==
    dir_exists \/ \E x \in DOMAIN results_files : results_files[x][2] # None

\* cli.py:162-175  after build_knowledge_graph has returned: the success
\* message, the summary file, and exit status 1 when writing it raises.
BuildCommandFinish(outcome) ==
    /\ cpc = "build" /\ bpc = "returned"
    /\ IF ~OutputDirPresent \/ outcome = "raise"
         THEN /\ messages' = messages \o <<"Build successful!", "Error: summary not written">>
              /\ exit_status' = Some(1)
         ELSE /\ messages' = Append(messages, "Build successful!")
              /\ exit_status' = Some(0)
    /\ cpc' = "exited"
    /\ UNCHANGED <<command, config_exists, args_email, args_api_key, env_email,
                   env_api_key, file_email, file_api_key, args_max_results,
                   dir_exists, cfg_email, cfg_api_key, net_requests>>
    /\ UNCHANGED buildVars
    /\ UNCHANGED nonCliBuildVars

\* cli.py:178-224  handle_search_command: k ids come back from
\* search_pubmed(keyword, args.max_results), fetch_details sends a request
\* only for a non-empty id list, and the table is written in every case.
HandleSearchCommand(k, failure) ==
    /\ cpc = "start" /\ command = "search"
    /\ k \in 0 .. MinOf(args_max_results, available)
    /\ LET email == PyOr(args_email, env_email)
           stop == UNCHANGED <<cfg_email, net_requests>>
       IN IF ~Truthy(email)
            THEN Exit("Error: PubMed email address required", 1) /\ stop
          ELSE IF ~ValidateEmail(email[1])
            THEN Exit("Error: Invalid email address", 1) /\ stop
          ELSE /\ cfg_email' = email
               /\ net_requests' =
                    IF failure = "esearch" \/ k = 0 THEN <<"esearch">>
                    ELSE <<"esearch", "efetch">>
               /\ IF \/ failure = "esearch"
                     \/ k > 0 /\ failure = "efetch"
                     \/ failure = "to_excel"
                    THEN Exit("Error", 1)
                    ELSE /\ messages' = Append(messages, "Results saved")
                         /\ exit_status' = Some(0)
                         /\ cpc' = "exited"
    /\ UNCHANGED <<command, config_exists, args_email, args_api_key, env_email,
                   env_api_key, file_email, file_api_key, args_max_results,
                   dir_exists, cfg_api_key>>
    /\ UNCHANGED buildVars
    /\ UNCHANGED nonCliBuildVars

\* From the command line max_results is always an int (cli.py:35, :157), so
\* search_and_save raises as soon as ids come back and the calls after the
\* search stage are never reached: the steps of build_knowledge_graph that
\* can be taken are these four.
CliNext ==
    \/ \E file_loads \in BOOLEAN : HandleBuildCommand(file_loads)
    \/ BuildCall
    \/ \E k, a \in 0 .. MaxResults : \E failure \in SearchFailures :
         SearchAndSave(k, a, failure)
    \/ Except
    \/ Finally
    \/ \E outcome \in StepOutcomes : BuildCommandFinish(outcome)
    \/ \E k \in 0 .. MaxResults : \E failure \in SearchFailures :
         HandleSearchCommand(k, failure)

SpecCli == CliInit /\ [][CliNext]_vars

\* The later calls are not reachable from the command line.
CliStopsAfterSearch ==
    cpc # "off" => bpc \in {"off", "call", "search_and_save", "except", "finally", "returned"}

(***************************************************************************)
(* Claims about the command line.                                          *)
(***************************************************************************)
\* C11 as claimed: whenever a stage of build_knowledge_graph has raised, the
\* build command ends with a non-zero exit status and has not printed the
\* success message.
C11_FailedBuildExitsNonZero ==
    (command = "build" /\ raised # None /\ exit_status # None) =>
      /\ exit_status # Some(0)
      /\ \A x \in DOMAIN messages : messages[x] # "Build successful!"

\* Any request to the citation database or the language model was sent.
RequestSent == retmax # None \/ net_requests # << >>

\* C12 as claimed: for the build and search commands no request is sent
\* unless the contact address in effect is valid and, for build, the API key
\* in effect is valid; with a missing or invalid one the process ends with a
\* non-zero status.
C12_NoRequestWithBadConfiguration ==
    RequestSent =>
      /\ cfg_email # None /\ ValidateEmail(cfg_email[1])
      /\ command = "build" => cfg_api_key # None /\ ValidateApiKey(cfg_api_key[1])

(***************************************************************************)
(* Claims about the empty results of build_knowledge_graph.                *)
(***************************************************************************)
\* The search stage has ended without articles: the id list came back
\* empty, or search_and_save returned an empty frame.
SearchFoundNothing ==
    /\ Len(calls) >= 1
    /\ \/ id_count = 0 /\ raised # Some(ErrorOf("esearch"))
       \/ raised = None /\ df_len = 0

\* C13: when the search finds no articles, build_knowledge_graph is on its
\* way to returning or has returned, nothing was raised and results has no
\* 'error'; total_articles is recorded with len(df) = 0; search_and_save is
\* the only call made, so no later stage has run, and results holds no entry
\* of a later stage.
C13_NoArticlesShortCircuits ==
    SearchFoundNothing =>
      /\ bpc \in {"finally", "returned"}
      /\ raised = None /\ results_error = None /\ "error" \notin results_keys
      /\ "total_articles" \in results_statistics /\ df_len = 0
      /\ calls = <<"search_and_save">>
      /\ FileKeys = {"search_results"} /\ results_statistics = {"total_articles"}
      /\ results_keys = {"keyword", "files", "statistics"}

\* C13 witness: the id list came back empty,
\* and the call has returned with the search entry only.
C13_Witness ==
    /\ bpc = "returned" /\ calls = <<"search_and_save">>
    /\ id_count = 0 /\ raised = None /\ retmax # None
    /\ results_files = <<<<"search_results", None>>>>
    /\ "total_articles" \in results_statistics

\* create_filtered_network found no node for the keyword: it returned the
\* empty file name.
NoNodeMatched ==
    \E x \in DOMAIN results_files :
      results_files[x] = <<"filtered_network", Some(EmptyStr)>>

\* C14 as claimed: when articles were found and no node matches the keyword
\* filter, nothing is raised, no 'error' is recorded, and the remaining
\* stages are not run: no call of analyze_network_structure,
\* generate_summary, generate_full_report or save_results_json is made.
C14_NoMatchShortCircuits ==
    NoNodeMatched =>
      /\ raised = None /\ results_error = None /\ "error" \notin results_keys
      /\ \A x \in DOMAIN calls :
           calls[x] \notin {"analyze_network_structure", "generate_summary",
                            "generate_full_report", "save_results_json"}
      /\ "network_stats" \notin results_statistics
      /\ FileKeys \cap {"report", "json_results"} = {}

(***************************************************************************)
(* visualizer.py: create_full_network and analyze_network_structure, and   *)
(* the operations on one dataset side by side.                             *)
(***************************************************************************)
\* Mutant of BothNonEmpty: only the first entity is tested.
BothNonEmptyFirstOnly(entity_a, entity_b) == entity_a # << >>

\* visualizer.py:37 and :137  `if entity_a and entity_b`
BothNonEmpty(entity_a, entity_b) == entity_a # << >> /\ entity_b # << >>

\* visualizer.py:35-42 and :135-138  the pairs of one cell value, in order.
RECURSIVE AddPlainPairs(_, _)
AddPlainPairs(g, ps) ==
    IF ps = << >> THEN g
    ELSE AddPlainPairs(IF BothNonEmpty(Head(ps)[1], Head(ps)[2])
                         THEN AddEdge(g, Head(ps)[1], Head(ps)[2])
                         ELSE g,
                       Tail(ps))

\* visualizer.py:31-42 and :133-138  `for _, row in df.iterrows()`
RECURSIVE BuildPlain(_, _)
BuildPlain(g, rows) ==
    IF rows = << >> THEN g
    ELSE BuildPlain(AddPlainPairs(g, ExtractPairs(Head(rows))), Tail(rows))

\* G.degree(n): the edges at n, a self-loop counting twice.
Degree(g, n) ==
    Cardinality({e \in g.edges : n \in e /\ e # {n}})
      + (IF {n} \in g.edges THEN 2 ELSE 0)

\* A fraction, as <<numerator, denominator>>.
FracLess(x, y) == x[1] * y[2] < y[1] * x[2]

\* nx.degree_centrality(G): degree / (n - 1), and 1 for every node of a
\* graph of at most one node; one (node, value) item per node, in node order.
DegreeCentrality(g) ==
    [x \in DOMAIN g.nodes |->
       <<g.nodes[x],
         IF Len(g.nodes) <= 1 THEN <<1, 1>>
         ELSE <<Degree(g, g.nodes[x]), Len(g.nodes) - 1>> >>]

\* Mutant of InsertDescending: an item goes in front of the items of equal
\* value.
InsertDescendingBeforeEqual(sorted, item) ==
    LET keep == {x \in DOMAIN sorted : FracLess(item[2], sorted[x][2])}
        k == Cardinality(keep)
    IN SubSeq(sorted, 1, k) \o <<item>> \o SubSeq(sorted, k + 1, Len(sorted))

\* One step of sorted(items, key=lambda x: x[1], reverse=True): the item
\* goes behind every item whose value is not smaller (the sort is stable).
InsertDescending(sorted, item) ==
    LET keep == {x \in DOMAIN sorted : ~FracLess(sorted[x][2], item[2])}
        k == Cardinality(keep)
    IN SubSeq(sorted, 1, k) \o <<item>> \o SubSeq(sorted, k + 1, Len(sorted))

RECURSIVE SortedDescending(_, _)
SortedDescending(items, sorted) ==
    IF items = << >> THEN sorted
    ELSE SortedDescending(Tail(items), InsertDescending(sorted, Head(items)))

\* visualizer.py:145  `[:10]`
TopN == 10

\* nx.number_connected_components(G)
RECURSIVE ConnectedComponents(_, _)
ConnectedComponents(g, left) ==
    IF left = {} THEN 0
    ELSE LET n == CHOOSE x \in left : TRUE IN
         1 + ConnectedComponents(g, left \ Expand(g, {n}, Len(g.nodes)))

\* visualizer.py:140-154  the returned dict.  average_degree and density are
\* kept as fractions; nx.density is 0 for a graph of at most one node.
NetworkStats(g) ==
    IF g.nodes = << >> THEN [kind |-> "error", error |-> "Empty graph"]
    ELSE LET n == Len(g.nodes)
             m == Cardinality(g.edges)
             ranked == SortedDescending(DegreeCentrality(g), << >>)
         IN [kind |-> "stats",
             node_count |-> n,
             edge_count |-> m,
             average_degree |-> <<2 * m, n>>,
             density |-> IF n <= 1 THEN <<0, 1>> ELSE <<2 * m, n * (n - 1)>>,
             connected_components |-> ConnectedComponents(g, Range(g.nodes)),
             top_10_nodes_by_degree |-> SubSeq(ranked, 1, MinOf(TopN, Len(ranked)))]

\* visualizer.py:19-52  create_full_network: the nodes and edges handed to
\* the pyvis network, and the returned file name.
CreateFullNetwork ==
    /\ gpc = "ready"
    /\ G' = BuildPlain(EmptyGraph, cells)
    /\ ret' = [filename |-> "full_network.html", node_names |-> << >>]
    /\ gpc' = "done"
    /\ UNCHANGED <<cells, exclude_entities, search_keyword, depth,
                   filtered_graph, network_stats>>
    /\ UNCHANGED nonGraphVars

\* visualizer.py:129-154  analyze_network_structure
AnalyzeNetworkStructure ==
    /\ gpc = "ready"
    /\ G' = BuildPlain(EmptyGraph, cells)
    /\ network_stats' = NetworkStats(G')
    /\ gpc' = "done"
    /\ UNCHANGED <<cells, exclude_entities, search_keyword, depth,
                   filtered_graph, ret>>
    /\ UNCHANGED nonGraphVars

\* processor.py:28-40  extract_entities on the same dataset.
ExtractEntitiesCall ==
    /\ gpc = "ready"
    /\ entities' = ExtractEntities(cells)
    /\ gpc' = "done"
    /\ UNCHANGED <<cells, exclude_entities, search_keyword, depth, G,
                   filtered_graph, ret, network_stats>>
    /\ UNCHANGED <<df_cells, use_embeddings, emb_similar, similar_phrases,
                   processed_cells, final_entities, statistics, epc>>
    /\ UNCHANGED <<batchVars, extractVars, buildVars, cliVars, similarVars>>

GraphsNext ==
    \/ CreateFullNetwork
    \/ CreateFilteredNetwork
    \/ AnalyzeNetworkStructure
    \/ ExtractEntitiesCall

\* One dataset, searched for "p" at depth 1, with and without an exclusion.
GraphsInit ==
    /\ BatchIdle /\ ExtractIdle /\ EntityIdle /\ BuildIdle /\ CliIdle /\ SimilarIdle
    /\ cells \in UNION {[1 .. n -> FilterCellTexts] : n \in 0 .. MaxCells}
    /\ exclude_entities \in {{}, {<<"P">>}}
    /\ search_keyword = <<"p">>
    /\ depth = 1
    /\ G = EmptyGraph
    /\ filtered_graph = EmptyGraph
    /\ ret = NoReturn
    /\ network_stats = NoStats
    /\ gpc = "ready"

SpecGraphs == GraphsInit /\ [][GraphsNext]_vars

(***************************************************************************)
(* analyze_network_structure on datasets of up to twelve entities, so that *)
(* the ranking is cut at ten.                                              *)
(***************************************************************************)
\* Six rows (a, b), (c, d), ... (k, l): twelve nodes of degree one.
BaseRows ==
    <<PairText(<<"a">>, <<"b">>), PairText(<<"c">>, <<"d">>),
      PairText(<<"e">>, <<"f">>), PairText(<<"g">>, <<"h">>),
      PairText(<<"i">>, <<"j">>), PairText(<<"k">>, <<"l">>)>>

\* Further rows among four of the entities, self-pairs included.
HubNames == {<<"a">>, <<"f">>, <<"k">>, <<"l">>}
ExtraRows == {PairText(x, y) : x, y \in HubNames}

\* A dataset: the extra rows in front of, behind, or without the base rows.
AnalyzeInit ==
    /\ BatchIdle /\ ExtractIdle /\ EntityIdle /\ BuildIdle /\ CliIdle /\ SimilarIdle
    /\ \E extra \in UNION {[1 .. n -> ExtraRows] : n \in 0 .. MaxCells} :
         cells \in {extra, extra \o BaseRows, BaseRows \o extra}
    /\ exclude_entities = {} /\ search_keyword = << >> /\ depth = 0
    /\ G = EmptyGraph
    /\ filtered_graph = EmptyGraph
    /\ ret = NoReturn
    /\ network_stats = NoStats
    /\ gpc = "ready"

AnalyzeNext == AnalyzeNetworkStructure

SpecAnalyze == AnalyzeInit /\ [][AnalyzeNext]_vars

(***************************************************************************)
(* Claims about the graphs of visualizer.py.                               *)
(***************************************************************************)
\* No node label of G contains the keyword (compared case-insensitively, as
\* _search_network compares).
NoLabelContainsKeyword ==
    \A n \in Range(G.nodes) : ~ContainsIgnoringCase(n, search_keyword)

\* C15: whatever the graph and the depth, when no node label contains the
\* keyword the graph returned by _search_network has no nodes and no edges,
\* and create_filtered_network, when it is the caller, returns the empty
\* file name and the empty node list (a file name is returned only after
\* the document was written, so none was written).
C15_NoSeedGivesEmptyResult ==
    (gpc = "done" /\ NoLabelContainsKeyword) =>
      /\ filtered_graph.nodes = << >> /\ filtered_graph.edges = {}
      /\ ret # NoReturn => ret = [filename |-> "", node_names |-> << >>]

\* C15 witness: create_filtered_network built a graph with an edge, none of
\* its labels contains the keyword, and it returned "" and [].
C15_Witness ==
    /\ gpc = "done" /\ G.edges # {} /\ NoLabelContainsKeyword
    /\ ret = [filename |-> "", node_names |-> << >>]

\* A pair of the dataset with an empty side after trimming.
HalfEmptyPairs == {t \in Triples : t[1] = << >> \/ t[2] = << >>}

\* C16: in each graph built from a dataset (full network, filtered network,
\* analysis graph) no node has the empty label; every node and every edge
\* comes from an extracted pair whose two sides are both non-empty; the full
\* network and the analysis graph hold every such pair; and extract_entities
\* returns no empty string.
C16_NoEmptyNode ==
    gpc = "done" =>
      /\ << >> \notin Range(G.nodes)
      /\ \A e \in G.edges : \E t \in Triples \ HalfEmptyPairs : e = {t[1], t[2]}
      /\ \A n \in Range(G.nodes) : \E t \in Triples \ HalfEmptyPairs : n \in {t[1], t[2]}
      /\ (ret.filename = "full_network.html" \/ network_stats # NoStats) =>
           \A t \in Triples \ HalfEmptyPairs : {t[1], t[2]} \in G.edges
      /\ << >> \notin Range(entities)

\* C16 witness: the pattern extracted a pair with an empty side (it is not
\* the pattern that drops it) next to a pair with two entities, and the
\* full network holds the second and not the first.
C16_Witness ==
    /\ gpc = "done" /\ ret.filename = "full_network.html"
    /\ <<(<<"p">>), << >>>> \in Triples
    /\ G.nodes = <<(<<"P">>), <<"x", "P">>>>

\* The number of edge ends at n: its neighbours, and two for a self-loop.
DegreeOf(n) ==
    Cardinality({m \in Range(G.nodes) \ {n} : {n, m} \in G.edges})
      + (IF {n} \in G.edges THEN 2 ELSE 0)

TopNames ==
    [x \in DOMAIN network_stats.top_10_nodes_by_degree |->
       network_stats.top_10_nodes_by_degree[x][1]]

\* C17: for a non-empty analysis graph top_10_nodes_by_degree lists
\* min(10, node count) distinct nodes of the graph, each with its degree
\* centrality degree / (n - 1) (1 in a graph of one node), in non-increasing
\* order of centrality; every listed node has a degree at least that of
\* every unlisted node; and listed nodes of equal centrality stand in the
\* order in which they were inserted into the graph.
C17_TopTenByDegree ==
    (gpc = "done" /\ network_stats # NoStats /\ G.nodes # << >>) =>
      LET top == network_stats.top_10_nodes_by_degree
          n == Len(G.nodes)
      IN /\ network_stats.kind = "stats"
         /\ Len(top) = (IF n < 10 THEN n ELSE 10)
         /\ \A x \in DOMAIN top : TopNames[x] \in Range(G.nodes)
         /\ \A x, y \in DOMAIN top : TopNames[x] = TopNames[y] => x = y
         /\ \A x \in DOMAIN top :
              IF n = 1 THEN top[x][2] = <<1, 1>>
              ELSE top[x][2] = <<DegreeOf(TopNames[x]), n - 1>>
         /\ \A x, y \in DOMAIN top :
              x < y => top[x][2][1] * top[y][2][2] >= top[y][2][1] * top[x][2][2]
         /\ \A x \in DOMAIN top : \A u \in Range(G.nodes) \ Range(TopNames) :
              DegreeOf(TopNames[x]) >= DegreeOf(u)
         /\ \A x, y \in DOMAIN top :
              (x < y /\ top[x][2] = top[y][2]) =>
                IndexOf(G.nodes, TopNames[x]) < IndexOf(G.nodes, TopNames[y])

\* C17 witness: a graph of twelve nodes; ten are listed, the first listed
\* node is not the first inserted one, and two listed nodes tie.
C17_Witness ==
    /\ gpc = "done" /\ Len(G.nodes) = 12
    /\ Len(network_stats.top_10_nodes_by_degree) = 10
    /\ TopNames[1] # G.nodes[1]
    /\ network_stats.top_10_nodes_by_degree[9][2] = network_stats.top_10_nodes_by_degree[10][2]
    /\ DegreeOf(TopNames[1]) > DegreeOf(TopNames[10])

(***************************************************************************)
(* Further claims about the canonicalization map.                          *)
(***************************************************************************)
\* C18: the map process_entities produces has no entry whose key equals its
\* value.
C18_NoSelfMapping ==
    epc = "done" =>
      \A x \in DOMAIN similar_phrases : similar_phrases[x][1] # similar_phrases[x][2]

\* C18 witness: a map with a chain, the canonical of one entry being the
\* duplicate of another.
C18_Witness ==
    /\ epc = "done"
    /\ \E x, y \in DOMAIN similar_phrases :
         similar_phrases[x][2] = similar_phrases[y][1]

(***************************************************************************)
(* Claims about _is_similar.                                               *)
(***************************************************************************)

\* The Jaccard similarity of the lower-cased word sets of a and b exceeds
\* num / den; the similarity of two strings without words is not defined and
\* exceeds nothing.
JaccardExceeds(a, b, num, den) ==
    LET wa == Words(Lower(a))
        wb == Words(Lower(b))
    IN /\ wa \cup wb # {}
       /\ Cardinality(wa \cap wb) * den > num * Cardinality(wa \cup wb)

\* C19: _is_similar(a, b) = _is_similar(b, a) for every pair of strings and
\* every threshold, and both are true exactly when one string contains the
\* other ignoring case or the Jaccard similarity of their lower-cased word
\* sets exceeds the threshold.
C19_IsSimilarSymmetric ==
    spc = "done" =>
      /\ similar_ab = similar_ba
      /\ similar_ab <=> \/ ContainsIgnoringCase(str_a, str_b)
                        \/ ContainsIgnoringCase(str_b, str_a)
                        \/ JaccardExceeds(str_a, str_b,
                                          threshold[1], threshold[2])

\* Two calls on strings of which only the second contains the first.
C19_Witness ==
    /\ spc = "done"
    /\ similar_ab
    /\ ContainsIgnoringCase(str_b, str_a)
    /\ ~ContainsIgnoringCase(str_a, str_b)
    /\ ~JaccardExceeds(str_a, str_b, threshold[1], threshold[2])

(***************************************************************************)
(* Claims about the threads of _batch_analyze_parallel.                    *)
(***************************************************************************)

\* A step that stores into cell i of the result column.
TableWrite(i) == writes'[i] # writes[i] \/ answer'[i] # answer[i]

\* A step of the thread that called batch_analyze which stores the outcome
\* of the finished future of row i into cell i and does nothing else to the
\* table or to a pool thread.
MainThreadStoresFuture(i) ==
    /\ mpc = "collecting"
    /\ tpc[i] \in {"done", "failed"}
    /\ tpc' = [tpc EXCEPT ![i] = "collected"]
    /\ writes[i] = 0
    /\ writes' = [writes EXCEPT ![i] = 1]
    /\ answer' = [answer EXCEPT ![i] =
                     IF tpc[i] = "done" THEN tresult[i] ELSE EmptyStr]

\* C20: in parallel mode the result table has no write-write race: every
\* step that stores into the table is a step of the one thread that called
\* batch_analyze, made for a future that has finished, and it stores into
\* that future's own row index, which no other step stores into; the pool
\* threads never store into the table.
C20_NoWriteWriteRace ==
    [][(use_parallel /\ mpc # "call") =>
         \A i \in Rows : TableWrite(i) => MainThreadStoresFuture(i)]_vars

\* The table has been stored into while a pool thread is still running
\* another task.
C20_Witness ==
    /\ use_parallel
    /\ mpc = "collecting"
    /\ \E i, j \in Rows :
         /\ i # j
         /\ writes[i] = 1 /\ tpc[i] = "collected"
         /\ tpc[j] \in {"calling", "lockwait", "locked", "read", "written"}

(***************************************************************************)
(* Claims that compare the two modes of batch_analyze.                     *)
(***************************************************************************)

\* The outcome the request of row i had in this run.
OutcomeOf(i) == IF llmFailed[i] THEN "error" ELSE "text"

\* Sequential mode returns a table for this dataset: no row is processed, or
\* row['Abstract'] can be read.
SequentialReturns == RowsToProcess = {} \/ hasAbstractCol

\* The cell sequential mode leaves in processed row i for the same dataset
\* and the same outcome of the row's request.
SequentialCell(i) == AnalyzeAbstractValue(AbstractOf(i), OutcomeOf(i))

\* The two definitions above describe sequential mode: it returns exactly
\* when SequentialReturns holds, with SequentialCell(i) in each processed
\* row and the other rows untouched.
SequentialModeAsDescribed ==
    ~use_parallel =>
      /\ mpc = "raised" => ~SequentialReturns
      /\ mpc = "returned" =>
           /\ SequentialReturns
           /\ \A i \in Rows :
                IF i \in RowsToProcess THEN answer[i] = SequentialCell(i)
                                       ELSE writes[i] = 0

ParallelEqualsSequentialWithAbstracts ==
    (use_parallel /\ mpc = "returned" /\ hasAbstractCol) =>
      \A i \in Rows :
        IF i \in RowsToProcess THEN answer[i] = SequentialCell(i)
                               ELSE writes[i] = 0

(***************************************************************************)
(* Claims about the requests of batch_analyze.                             *)
(***************************************************************************)

\* C22: within one batch_analyze call at most one language-model request is
\* issued for each row, in both modes: a row whose request failed has had
\* exactly one and gets no other, and a row with an empty or missing
\* abstract, a row before start_row and a row whose abstract cannot be read
\* get none.
C22_AtMostOneRequest ==
    mpc # "off" =>
      \A i \in Rows :
        /\ llmCalls[i] <= 1
        /\ llmFailed[i] => llmCalls[i] = 1
        /\ (i < start_row \/ ~hasAbstractCol \/ IsMissing(AbstractOf(i)))
             => llmCalls[i] = 0

\* A batch has returned in which the request of one row failed and another
\* row had no abstract.
C22_Witness ==
    /\ mpc = "returned"
    /\ \E k, j \in RowsToProcess :
         /\ llmFailed[k] /\ llmCalls[k] = 1
         /\ IsMissing(AbstractOf(j)) /\ llmCalls[j] = 0 /\ writes[j] = 1

(***************************************************************************)
(* Claims about the termination of batch_analyze.                          *)
(***************************************************************************)

\* No task is waiting, running or uncollected, and the lock is free.
NoTaskLeft ==
    /\ lock = NoHolder
    /\ \A i \in Rows : tpc[i] \in {"none", "collected"}

Counted == {i \in Rows : hasAbstractCol /\ tpc[i] \in {"written", "done", "collected"}}

\* A parallel batch is under way or has returned.
InParallelBatch == use_parallel /\ mpc \in {"submitting", "collecting", "returned"}

\* A step that changes the counter adds one to it and is the step of a task
\* that holds the lock.
CounterStep ==
    completed_count' # completed_count =>
      /\ completed_count' = completed_count + 1
      /\ \E i \in Rows : lock = i /\ lock' = i /\ tpc[i] = "read" /\ tpc'[i] = "written"

\* No written cell depends on the counter: it holds the result of its own
\* row.
CellsIndependentOfCounter ==
    \A i \in Rows : writes[i] >= 1 => answer[i] = ExpectedCell(i)

Chains ==
    {xy \in (DOMAIN similar_phrases) \X (DOMAIN similar_phrases) :
        similar_phrases[xy[1]][2] = similar_phrases[xy[2]][1]}

\* C25: chains are left unresolved.  The map process_entities returns is
\* the one find_similar_entities produced: every entry joins two entities
\* that were themselves judged similar, so an entry A -> B is not re-pointed
\* to C when the map also holds B -> C; the table is that map applied in one
\* pass and the final entities are the entities of that table, which may
\* still hold keys of the map (the state C25_Witness describes).
C25_ChainsLeftUnresolved ==
    epc = "done" =>
      /\ \A x \in DOMAIN similar_phrases :
           \E ij \in SimilarPairs :
             /\ DuplicateOf(ij) = similar_phrases[x][1]
             /\ CanonicalOf(ij) = similar_phrases[x][2]
      /\ \A xy \in Chains :
           ValueOf(similar_phrases, similar_phrases[xy[1]][1])
             = similar_phrases[xy[2]][1]
      /\ \A r \in DOMAIN df_cells :
           processed_cells[r] =
             IF similar_phrases = << >> THEN df_cells[r]
             ELSE AfterEntries(CellText(df_cells[r]), Len(similar_phrases))
      /\ final_entities = ExtractEntities(processed_cells)

\* An entity that remains after process_entities is still a key of the map,
\* at the end of a chain A -> B -> C that was not resolved.
C25_Witness ==
    /\ epc = "done"
    /\ \E xy \in Chains :
         /\ similar_phrases[xy[1]][2] \in Range(final_entities)
         /\ similar_phrases[xy[2]][2] # similar_phrases[xy[1]][2]

(***************************************************************************)
(* Claims about the entity statistics of build_knowledge_graph.            *)
(***************************************************************************)

\* C26: in every results summary that carries entity statistics,
\* unique_entities is a count of entities: it is at least 0 and at most
\* total_entities, and total_entities is the number of distinct entities of
\* the table after normalization.
C26_UniqueEntitiesIsACount ==
    statistics # None =>
      /\ statistics[1].total_entities = Len(final_entities)
      /\ 0 <= statistics[1].unique_entities
      /\ statistics[1].unique_entities <= statistics[1].total_entities

(***************************************************************************)
(* Claims about the use_parallel override of build_knowledge_graph.        *)
(***************************************************************************)

\* C27: a per-call use_parallel override leaves no trace.  Before and after
\* every call of a sequence of calls on one builder, however the call ended,
\* config.use_parallel has the value it had before the first call; and the
\* batch stage of a call runs in the mode of the call's override when one
\* was given, and in the configured mode otherwise.
C27_OverrideLeavesNoTrace ==
    /\ bpc \in {"call", "returned"} => config_use_parallel = first_parallel
    /\ batch_parallel # None =>
         batch_parallel[1] = IF arg_use_parallel # None
                               THEN arg_use_parallel[1] ELSE first_parallel

\* The second call on a builder was given an override opposite to the
\* configuration, its batch stage ran in the overridden mode, a later stage
\* raised, and the call has returned with the setting restored.
C27_Witness ==
    /\ builds = 2 /\ bpc = "returned"
    /\ arg_use_parallel = Some(~first_parallel)
    /\ batch_parallel = arg_use_parallel
    /\ results_error # None
    /\ config_use_parallel = first_parallel

=============================================================================
